---- MODULE Spec2Model ----
(***************************************************************************)
(* A model of the sudatas document database: the per-connection session    *)
(* state machine of the server, the RBAC gate, the SQL-like parser, the    *)
(* memory store with its snapshot files, the SQL dump export/import and    *)
(* the B+-tree index.                                                      *)
(*                                                                         *)
(* Text (query payloads, dump files, JSON files) is a sequence of chunks.  *)
(* A chunk is a record [t, v]: t = "w" a bare word or punctuation mark,    *)
(* t = "s" a double-quoted JSON string literal, t = "n" a JSON number      *)
(* literal.  W(" ") is one blank, W("\n") one line break.                  *)
(***************************************************************************)
EXTENDS Integers, Sequences, FiniteSets, TLC

(***************************************************************************)
(* Bounds of the model.                                                    *)
(***************************************************************************)
MaxRecords == 2

(***************************************************************************)
(* Text                                                                    *)
(***************************************************************************)
W(s) == [t |-> "w", v |-> s]
S(s) == [t |-> "s", v |-> s]
N(s) == [t |-> "n", v |-> s]
SP == W(" ")
NL == W("\n")

IsSpace(ch) == ch = SP \/ ch = NL

\* strings.ToUpper on the words of the model that have lower-case letters.
ToUpperV(v) ==
  CASE v = "values" -> "VALUES"
    [] v = "select" -> "SELECT"
    [] v = "into" -> "INTO"
    [] v = "to" -> "TO"
    [] OTHER -> v

ToUpper(text) == [i \in 1..Len(text) |-> [t |-> text[i].t, v |-> ToUpperV(text[i].v)]]

\* The words of a query, blank-separated.
RECURSIVE Words(_)
Words(ws) ==
  IF ws = <<>> THEN <<>>
  ELSE IF Len(ws) = 1 THEN <<W(ws[1])>>
  ELSE <<W(ws[1]), SP>> \o Words(Tail(ws))

\* The n-th smallest member of a set of positions.
Nth(P, n) == CHOOSE p \in P : Cardinality({q \in P : q < p}) = n - 1

\* strings.TrimSpace
TrimSpace(text) ==
  LET P == {i \in 1..Len(text) : ~IsSpace(text[i])}
  IN  IF P = {} THEN <<>>
      ELSE SubSeq(text, Nth(P, 1), Nth(P, Cardinality(P)))

\* strings.Split(text, sep): the pieces between the separator chunks, empty
\* pieces kept.
Split(text, sep) ==
  LET P == {i \in 1..Len(text) : text[i] = sep}
      n == Cardinality(P)
      from(i) == IF i = 1 THEN 1 ELSE Nth(P, i - 1) + 1
      to(i) == IF i = n + 1 THEN Len(text) ELSE Nth(P, i) - 1
  IN  [i \in 1..(n + 1) |-> SubSeq(text, from(i), to(i))]

\* strings.Fields: the maximal runs of non-blank chunks.
Fields(text) ==
  LET B == {i \in 1..Len(text) :
              ~IsSpace(text[i]) /\ (i = 1 \/ IsSpace(text[i - 1]))}
      E == {i \in 1..Len(text) :
              ~IsSpace(text[i]) /\ (i = Len(text) \/ IsSpace(text[i + 1]))}
  IN  [i \in 1..Cardinality(B) |-> SubSeq(text, Nth(B, i), Nth(E, i))]

\* strings.Join(parts, " ")
RECURSIVE JoinSP(_)
JoinSP(parts) ==
  IF parts = <<>> THEN <<>>
  ELSE IF Len(parts) = 1 THEN parts[1]
  ELSE parts[1] \o <<SP>> \o JoinSP(Tail(parts))

RECURSIVE Concat(_)
Concat(parts) == IF parts = <<>> THEN <<>> ELSE Head(parts) \o Concat(Tail(parts))

HasPrefix(text, pre) == Len(text) >= Len(pre) /\ SubSeq(text, 1, Len(pre)) = pre

HasSuffix(text, suf) ==
  Len(text) >= Len(suf) /\ SubSeq(text, Len(text) - Len(suf) + 1, Len(text)) = suf

TrimSuffix(text, suf) ==
  IF HasSuffix(text, suf) THEN SubSeq(text, 1, Len(text) - Len(suf)) ELSE text

\* strings.Contains(text, word), for a word that is one chunk of the model.
Contains(text, word) == \E i \in 1..Len(text) : text[i].v = word

\* strings.Index(text, word) in chunks: the first chunk that is the word, 0
\* when there is none (Go: -1).
Index(text, word) ==
  IF Contains(text, word)
  THEN CHOOSE i \in 1..Len(text) :
         text[i].v = word /\ \A j \in 1..(i - 1) : text[j].v # word
  ELSE 0

Repeat(ch, n) == [i \in 1..n |-> ch]

(***************************************************************************)
(* JSON.  A value of the store is [k, v]: k = "string", "float64", "bool"  *)
(* or "nil" as encoding/json leaves it in an interface{}.  A Row maps      *)
(* field names to values.                                                  *)
(***************************************************************************)
FieldOrder == <<"age", "name">>

EmptyRow == [f \in {} |-> [k |-> "nil", v |-> ""]]

\* A json.Marshal that writes every scalar as a quoted string
EncodeValueQuoted(val) == S(val.v)

\* json.Marshal of a scalar
EncodeValue(val) ==
  CASE val.k = "string" -> S(val.v)
    [] val.k = "float64" -> N(val.v)
    [] val.k = "bool" -> W(val.v)
    [] OTHER -> W("null")

IsLiteral(ch) == ch.t = "s" \/ ch.t = "n" \/ ch \in {W("true"), W("false"), W("null")}

\* json.Unmarshal of a scalar into interface{}
DecodeValue(ch) ==
  CASE ch.t = "s" -> [k |-> "string", v |-> ch.v]
    [] ch.t = "n" -> [k |-> "float64", v |-> ch.v]
    [] ch = W("null") -> [k |-> "nil", v |-> ""]
    [] OTHER -> [k |-> "bool", v |-> ch.v]

\* The fields of a row in the order json.Marshal writes them (sorted keys).
SortedKeys(row) == SelectSeq(FieldOrder, LAMBDA f : f \in DOMAIN row)

\* json.MarshalIndent(row, prefix, "  "): one member per line.
RECURSIVE MarshalMembers(_, _, _)
MarshalMembers(row, keys, prefix) ==
  IF keys = <<>> THEN <<>>
  ELSE <<NL>> \o Repeat(SP, prefix + 2)
       \o <<S(Head(keys)), W(":"), SP, EncodeValue(row[Head(keys)])>>
       \o (IF Len(keys) > 1 THEN <<W(",")>> ELSE <<>>)
       \o MarshalMembers(row, Tail(keys), prefix)

MarshalIndentRow(row, prefix) ==
  IF DOMAIN row = {} THEN <<W("{"), W("}")>>
  ELSE <<W("{")>> \o MarshalMembers(row, SortedKeys(row), prefix)
       \o <<NL>> \o Repeat(SP, prefix) \o <<W("}")>>

\* json.MarshalIndent(records, "", "  ")
RECURSIVE MarshalElems(_)
MarshalElems(rows) ==
  IF rows = <<>> THEN <<>>
  ELSE <<NL, SP, SP>> \o MarshalIndentRow(Head(rows), 2)
       \o (IF Len(rows) > 1 THEN <<W(",")>> ELSE <<>>)
       \o MarshalElems(Tail(rows))

MarshalIndentRows(rows) ==
  IF rows = <<>> THEN <<W("["), W("]")>>
  ELSE <<W("[")>> \o MarshalElems(rows) \o <<NL, W("]")>>

StripWS(text) == SelectSeq(text, LAMBDA ch : ~IsSpace(ch))

JFail == [ok |-> FALSE, row |-> EmptyRow, rest |-> <<>>]

\* The members of an object, after "{": key, colon, scalar, then "," or "}".
\* A later duplicate of a key replaces the earlier one.
RECURSIVE ParseMembers(_, _)
ParseMembers(s, row) ==
  IF Len(s) < 4 THEN JFail
  ELSE IF s[1].t # "s" \/ s[2] # W(":") \/ ~IsLiteral(s[3]) THEN JFail
  ELSE LET row2 == (s[1].v :> DecodeValue(s[3])) @@ row
           rest == SubSeq(s, 4, Len(s))
       IN  IF Head(rest) = W("}") THEN [ok |-> TRUE, row |-> row2, rest |-> Tail(rest)]
           ELSE IF Head(rest) = W(",") THEN ParseMembers(Tail(rest), row2)
           ELSE JFail

ParseObject(s) ==
  IF Len(s) < 2 \/ Head(s) # W("{") THEN JFail
  ELSE IF s[2] = W("}") THEN [ok |-> TRUE, row |-> EmptyRow, rest |-> SubSeq(s, 3, Len(s))]
  ELSE ParseMembers(Tail(s), EmptyRow)

\* json.Unmarshal(text, &row) for a Row: [ok, row]
UnmarshalRow(text) ==
  LET r == ParseObject(StripWS(text))
  IN  IF r.ok /\ r.rest = <<>> THEN [ok |-> TRUE, row |-> r.row]
      ELSE [ok |-> FALSE, row |-> EmptyRow]

AFail == [ok |-> FALSE, rows |-> <<>>]

RECURSIVE ParseElems(_, _)
ParseElems(s, rows) ==
  LET r == ParseObject(s)
  IN  IF ~r.ok \/ r.rest = <<>> THEN AFail
      ELSE IF r.rest = <<W("]")>> THEN [ok |-> TRUE, rows |-> Append(rows, r.row)]
      ELSE IF Head(r.rest) = W(",") THEN ParseElems(Tail(r.rest), Append(rows, r.row))
      ELSE AFail

\* json.Unmarshal(text, &records) for a []Row: [ok, rows]
UnmarshalRows(text) ==
  LET s == StripWS(text)
  IN  IF Len(s) < 2 \/ Head(s) # W("[") THEN AFail
      ELSE IF s = <<W("["), W("]")>> THEN [ok |-> TRUE, rows |-> <<>>]
      ELSE ParseElems(Tail(s), <<>>)

(***************************************************************************)
(* State                                                                   *)
(***************************************************************************)
VARIABLES
  running,      \* the server process is up (its memory is live)
  data,         \* MemoryStore.data: collection -> database -> records
  dirty,        \* MemoryStore.dirty
  disk,         \* <<collection, database>> -> the files of that directory
  dump,         \* the SQL dump file of EXPORT / IMPORT
  saving,       \* position of a SaveToDisk in progress
  saveErr,      \* the SaveToDisk in progress (or the last one) hit an I/O failure
  crashPc,      \* where in SaveToDisk the last crash happened
  saved,        \* the records in memory at the last SaveToDisk that ended clean
  boots,        \* number of restarts so far
  exported,     \* what the dump file was written from: collection, database, records
  lastImport    \* the last ImportFromFile call: target and outcome

storeVars ==
  <<running, data, dirty, disk, dump, saving, saveErr, crashPc, saved, boots,
    exported, lastImport>>

\* The server
VARIABLES
  clients,          \* Server.clients: connection -> [open, auth, user]
  users,            \* UserManager.users: name -> [Password, Roles, Status]
  userRoles,        \* PermissionManager.userRoles: name -> role names
  userPermissions,  \* PermissionManager.userPermissions: name -> rules
  collections,      \* CollectionManager.collections: name -> [Owner, Databases]
  last              \* the last frame read, what was written back for it, and the
                    \* records its handling appended to the audit log

srvVars == <<clients, users, userRoles, userPermissions, collections, last>>

\* The index
VARIABLES
  root,      \* BPlusTreeIndex.root
  nodes,     \* the nodes made so far: [IsLeaf, Keys, Children, Values, Next]
  postings   \* key -> row id -> how many times added and not removed

idxVars == <<root, nodes, postings>>

\* Library calls made outside a running server
VARIABLES
  conns,     \* the handleConnection goroutines: connection -> [pc, client, req,
             \* resp, reads, writes, err], frame by frame
  call,      \* the last call: [op, args, ret]
  wire       \* one byte stream: the bytes written and not yet read, the
             \* messages they were written from, the last ReadMessage

\* The goroutines around the memory store's lock
VARIABLES
  ms,        \* MemoryStore.mu and stopChan: [w, readers, stopChan]
  gor        \* goroutine -> [pc, ret, at, rows, sent, seen]

lockVars == <<ms, gor>>

\* The goroutines that create databases
VARIABLES
  cdb        \* goroutine -> [pc, at, ret] of its Engine.CreateDatabase call

\* The audit logger and its directory
VARIABLES
  audit      \* [files, file, curSize, now]: the bytes of each audit_<second>.log,
             \* the second in the name of the open file, AuditLogger.curSize,
             \* the second of the wall clock

\* The backup directory
VARIABLES
  backups    \* backup id -> [archive, manifest]: the entries of <id>.tar.gz
             \* (path -> number of headers with that name), the status in <id>.json

\* The process from the signal to its end
VARIABLES
  sd         \* [ctx, serve, main, workers, answered]: the serve context, where
             \* Serve and main are, where each connection worker is, and the
             \* number of INSERTs answered with a Result frame

\* The collection directories and what the manager read from them
VARIABLES
  cmgr       \* [metas, loaded]: collection -> the bytes of its meta.sudb, and
             \* collection put into the map by loadCollections -> whether its
             \* Databases map was made

moreVars == <<cdb, audit, backups, sd, cmgr>>

auxVars == <<conns, call, wire, lockVars, moreVars>>

vars == <<storeVars, srvVars, idxVars, auxVars>>

(***************************************************************************)
(* Names and records of the model                                          *)
(***************************************************************************)
CollNames == {"app", "values"}
TargetNames == {"app", "imp"}
DbNames == {"users"}
SnapColls == {"app"}
SnapDbs == {"users", "logs"}

Alice == ("age" :> [k |-> "float64", v |-> "25"]) @@ ("name" :> [k |-> "string", v |-> "Alice"])
Bob == ("name" :> [k |-> "string", v |-> "Bob"])
Rows == {Alice, Bob}
\* the records the snapshot runs insert into a database
SnapRows(d) == IF d = "users" THEN Rows ELSE {Bob}

NoFile == [exists |-> FALSE, text |-> <<>>]
File(text) == [exists |-> TRUE, text |-> text]
NoFiles == [live |-> NoFile, bak |-> NoFile, tmp |-> NoFile]

EmptyMap == [x \in {} |-> <<>>]

HasDb(d0, c, d) == c \in DOMAIN d0 /\ d \in DOMAIN d0[c]

Records(d0, c, d) == IF HasDb(d0, c, d) THEN d0[c][d] ELSE <<>>

\* data with data[c][d] set to rows, the containers made when missing
PutDb(d0, c, d, rows) ==
  LET inner == IF c \in DOMAIN d0 THEN d0[c] ELSE EmptyMap
  IN  (c :> ((d :> rows) @@ inner)) @@ d0

\* data with the collection c made when missing
EnsureColl(d0, c) == IF c \in DOMAIN d0 THEN d0 ELSE (c :> EmptyMap) @@ d0

\* data with c.d made (empty) when missing
EnsureDb(d0, c, d) == IF HasDb(d0, c, d) THEN d0 ELSE PutDb(d0, c, d, <<>>)

DbKeys(d0) == UNION {{<<c, d>> : d \in DOMAIN d0[c]} : c \in DOMAIN d0}

\* number of records the store holds
RECURSIVE SumLen(_, _)
SumLen(d0, keys) ==
  IF keys = {} THEN 0
  ELSE LET k == CHOOSE x \in keys : TRUE
       IN  Len(d0[k[1]][k[2]]) + SumLen(d0, keys \ {k})

TotalRecords(d0) == SumLen(d0, DbKeys(d0))

\* two record sequences hold the same records the same number of times
CountIn(rows, rec) == Cardinality({i \in DOMAIN rows : rows[i] = rec})

SameBag(rows1, rows2) ==
  /\ Len(rows1) = Len(rows2)
  /\ \A i \in DOMAIN rows1 : CountIn(rows1, rows1[i]) = CountIn(rows2, rows1[i])

(***************************************************************************)
(* MemoryStore                                                             *)
(***************************************************************************)
\* InsertRecord: containers made lazily, the record appended
InsertRecordOp(d0, c, d, rec) == PutDb(d0, c, d, Append(Records(d0, c, d), rec))

\* SaveToDisk, one database: MkdirAll, then the live file renamed to .bak
SaveRenameBak(files) ==
  IF files.live.exists
  THEN [files EXCEPT !.bak = files.live, !.live = NoFile]
  ELSE files

\* SaveToDisk, one database: the JSON written to data.sudb.tmp
SaveWriteTmp(files, rows) == [files EXCEPT !.tmp = File(MarshalIndentRows(rows))]

\* SaveToDisk, one database: data.sudb.tmp renamed to data.sudb
SaveRenameTmp(files) == [files EXCEPT !.live = files.tmp, !.tmp = NoFile]

\* SaveToDisk, one database: the rename failed, data.sudb.tmp removed
SaveRemoveTmp(files) == [files EXCEPT !.tmp = NoFile]

FilesOf(dk, k) == IF k \in DOMAIN dk THEN dk[k] ELSE NoFiles

\* LoadFromDisk, one database directory: [ok, rows, files]
LoadDb(files) ==
  IF ~files.live.exists THEN [ok |-> FALSE, rows |-> <<>>, files |-> files]
  ELSE LET first == UnmarshalRows(files.live.text)
           bytes == IF first.ok THEN files.live ELSE files.bak
           parsed == UnmarshalRows(bytes.text)
       IN  IF ~first.ok /\ ~files.bak.exists
           THEN [ok |-> FALSE, rows |-> <<>>, files |-> files]
           ELSE IF ~parsed.ok THEN [ok |-> FALSE, rows |-> <<>>, files |-> files]
           ELSE [ok |-> TRUE, rows |-> parsed.rows,
                 files |-> [files EXCEPT !.bak = File(bytes.text)]]

\* LoadFromDisk: the map rebuilt from the directories that hold a data.sudb
RECURSIVE LoadData(_, _, _)
LoadData(dk, keys, acc) ==
  IF keys = {} THEN acc
  ELSE LET k == CHOOSE x \in keys : TRUE
           r == LoadDb(dk[k])
       IN  LoadData(dk, keys \ {k}, IF r.ok THEN PutDb(acc, k[1], k[2], r.rows) ELSE acc)

LoadFromDiskData(dk) == LoadData(dk, DOMAIN dk, EmptyMap)

LoadFromDiskFiles(dk) == [k \in DOMAIN dk |-> LoadDb(dk[k]).files]

(***************************************************************************)
(* SQL dump export and import                                              *)
(***************************************************************************)
\* recordToSQL
recordToSQL(c, d, rec) ==
  <<W("INSERT"), SP, W("INTO"), SP, W(c), W("."), W(d), SP, W("VALUES"), SP>>
  \o MarshalIndentRow(rec, 0) \o <<W(";")>>

RECURSIVE ExportRecords(_, _, _)
ExportRecords(c, d, rows) ==
  IF rows = <<>> THEN <<>>
  ELSE recordToSQL(c, d, Head(rows)) \o <<NL>> \o ExportRecords(c, d, Tail(rows))

\* ExportDatabase: the text of the dump file
ExportText(d0, c, d) ==
  <<W("--"), SP, W("SuDB"), SP, W("export"), NL,
    W("--"), SP, W("collection:"), SP, W(c), NL,
    W("--"), SP, W("database:"), SP, W(d), NL,
    W("--"), SP, W("time:"), SP, W("now"), NL,
    W("--"), SP, W("version:"), SP, W("1.0"), NL, NL>>
  \o Words(<<"CREATE", "COLLECTION", "IF", "NOT", "EXISTS">>)
  \o <<SP, W(c), W(";"), NL, NL>>
  \o Words(<<"CREATE", "DATABASE", "IF", "NOT", "EXISTS">>)
  \o <<SP, W(c), W("."), W(d), SP, W("TYPE"), SP, W("json"), SP,
       W("DESCRIPTION"), SP, W("'exported'"), W(";"), NL, NL>>
  \o ExportRecords(c, d, d0[c][d])

\* ImportFromFile: the statements of the dump, lines joined up to each ";"
RECURSIVE SplitStatements(_, _, _, _)
SplitStatements(lines, cur, inValues, acc) ==
  IF lines = <<>> THEN acc
  ELSE LET line == TrimSpace(Head(lines))
           inV == inValues \/ Contains(line, "VALUES")
           cur2 == IF inV THEN cur \o line ELSE cur \o <<SP>> \o line
       IN  IF HasPrefix(line, <<W("--")>>) \/ line = <<>>
           THEN SplitStatements(Tail(lines), cur, inValues, acc)
           ELSE IF HasSuffix(line, <<W(";")>>)
                THEN SplitStatements(Tail(lines), <<>>, FALSE, Append(acc, TrimSpace(cur2)))
                ELSE SplitStatements(Tail(lines), cur2, inV, acc)

\* The name a token spells (the names of the model are single chunks).
NameOf(tok) == IF tok = <<>> THEN "" ELSE tok[1].v

EqualFold(tok, word) == Len(tok) = 1 /\ ToUpperV(tok[1].v) = word

\* executeImportStatement, CREATE DATABASE branch: the token holding the name
\* ("" when there is none), after the first DATABASE word
DbNamePart(parts) ==
  LET hits == {i \in 1..Len(parts) : EqualFold(parts[i], "DATABASE")}
      j == (CHOOSE i \in hits : \A h \in hits : i <= h) + 1
  IN  IF hits = {} \/ j > Len(parts) THEN <<>>
      ELSE IF j + 3 <= Len(parts) /\ EqualFold(parts[j], "IF")
              /\ EqualFold(parts[j + 1], "NOT") /\ EqualFold(parts[j + 2], "EXISTS")
           THEN parts[j + 3]
           ELSE parts[j]

\* The position after the VALUES keyword as executeImportStatement finds it:
\* strings.Index(strings.ToUpper(stmt), "VALUES")
ValuesIndex(stmt) == Index(ToUpper(stmt), "VALUES")

\* executeImportStatement: [err, data]
executeImportStatement(d0, stmt0, target) ==
  LET stmt == TrimSuffix(stmt0, <<W(";")>>)
      parts == Fields(stmt)
  IN  IF HasPrefix(stmt, Words(<<"CREATE", "COLLECTION">>))
      THEN [err |-> "", data |-> EnsureColl(d0, target)]
      ELSE IF HasPrefix(stmt, Words(<<"CREATE", "DATABASE">>))
      THEN LET part == DbNamePart(parts)
               names == Split(part, W("."))
           IN  IF part = <<>> THEN [err |-> "invalid CREATE DATABASE", data |-> d0]
               ELSE IF Len(names) # 2 THEN [err |-> "invalid database name", data |-> d0]
               ELSE [err |-> "", data |-> EnsureDb(d0, target, NameOf(names[2]))]
      ELSE IF HasPrefix(stmt, Words(<<"INSERT", "INTO">>))
      THEN IF Len(parts) < 4 THEN [err |-> "invalid INSERT", data |-> d0]
           ELSE LET names == Split(parts[3], W("."))
                    idx == ValuesIndex(stmt)
                    json == UnmarshalRow(TrimSpace(SubSeq(stmt, idx + 1, Len(stmt))))
                IN  IF Len(names) # 2 THEN [err |-> "invalid database name", data |-> d0]
                    ELSE IF idx = 0 THEN [err |-> "missing VALUES", data |-> d0]
                    ELSE IF ~json.ok THEN [err |-> "bad JSON", data |-> d0]
                    ELSE [err |-> "",
                          data |-> InsertRecordOp(d0, target, NameOf(names[2]), json.row)]
      ELSE [err |-> "", data |-> d0]

RECURSIVE ExecuteStatements(_, _, _)
ExecuteStatements(d0, stmts, target) ==
  IF stmts = <<>> THEN [err |-> "", data |-> d0]
  ELSE LET r == executeImportStatement(d0, Head(stmts), target)
       IN  IF Head(stmts) = <<>> THEN ExecuteStatements(d0, Tail(stmts), target)
           ELSE IF r.err # "" THEN r
           ELSE ExecuteStatements(r.data, Tail(stmts), target)

\* ImportFromFile: what it returns once the statements have run
importResult(r, dirty0) ==
  [err |-> r.err, data |-> r.data, dirty |-> IF r.err = "" THEN TRUE ELSE dirty0]

\* ImportFromFile: [err, data, dirty]
ImportFromFileOp(d0, dirty0, file, target) ==
  IF ~file.exists THEN [err |-> "read failed", data |-> d0, dirty |-> dirty0]
  ELSE importResult(ExecuteStatements(d0, SplitStatements(Split(file.text, NL), <<>>,
                                                          FALSE, <<>>), target), dirty0)

(***************************************************************************)
(* The SQL-like parser.  A token is the chunk sequence between blanks;     *)
(* names and keywords are tokens of one chunk.                             *)
(***************************************************************************)
\* strings.ToUpper of a token, for the comparison with a keyword
KW(tok) == IF Len(tok) = 1 /\ tok[1].t = "w" THEN ToUpperV(tok[1].v) ELSE ""

\* the text a one-chunk token spells
TextOf(text) == IF Len(text) = 1 THEN text[1].v ELSE ""

NoFilter == [nil |-> TRUE, row |-> EmptyRow]

Statement ==
  [Type |-> "", Collection |-> "", Database |-> "", DBType |-> "", Owner |-> "",
   Columns |-> <<>>, Data |-> EmptyRow, Filter |-> NoFilter, FilePath |-> <<>>]

ParseErr(e) == [panic |-> FALSE, err |-> e, stmt |-> Statement]
ParseOk(st) == [panic |-> FALSE, err |-> "", stmt |-> st]
ParsePanic == [panic |-> TRUE, err |-> "", stmt |-> Statement]

\* SQLParser.Parse, CREATE DATABASE: the word after the last TYPE that has one
RECURSIVE ParseDBType(_, _, _)
ParseDBType(parts, i, acc) ==
  IF i > Len(parts) THEN acc
  ELSE IF KW(parts[i]) \in {"TYPE", "DESCRIPTION"} /\ i + 1 <= Len(parts)
  THEN ParseDBType(parts, i + 2, IF KW(parts[i]) = "TYPE" THEN TextOf(parts[i + 1]) ELSE acc)
  ELSE ParseDBType(parts, i + 1, acc)

\* SQLParser.Parse, UPDATE: the scan of the SET clause, chunk by chunk
RECURSIVE ParseSet(_, _, _, _)
ParseSet(s, key, cur, updates) ==
  LET value == [k |-> "string", v |-> TextOf(TrimSpace(cur))]
      put == IF key # "" THEN (key :> value) @@ updates ELSE updates
  IN  IF s = <<>> THEN put
      ELSE IF Head(s) = W("=") THEN ParseSet(Tail(s), TextOf(TrimSpace(cur)), <<>>, updates)
      ELSE IF Head(s) = W(",") THEN ParseSet(Tail(s), "", <<>>, put)
      ELSE ParseSet(Tail(s), key, Append(cur, Head(s)), updates)

\* SQLParser.Parse, UPDATE: the WHERE clause "key = value"; a numeric value
\* becomes a float64
ParseWhere(whereStr) ==
  LET whereParts == Split(whereStr, W("="))
      value == TrimSpace(whereParts[2])
  IN  IF Len(whereParts) # 2 THEN [ok |-> FALSE, filter |-> NoFilter]
      ELSE [ok |-> TRUE,
            filter |-> [nil |-> FALSE,
                        row |-> (TextOf(TrimSpace(whereParts[1])) :>
                                   [k |-> IF Len(value) = 1 /\ value[1].t = "n"
                                          THEN "float64" ELSE "string",
                                    v |-> TextOf(value)])]]

\* SQLParser.Parse, UPDATE branch: the first WHERE (0: none) and the last SET
\* before it (0: none)
WhereIndex(parts) ==
  LET wheres == {i \in 1..Len(parts) : KW(parts[i]) = "WHERE"}
  IN  IF wheres = {} THEN 0 ELSE Nth(wheres, 1)

SetIndex(parts, whereIndex) ==
  LET sets == {i \in 1..Len(parts) :
                 KW(parts[i]) = "SET" /\ (whereIndex = 0 \/ i < whereIndex)}
  IN  IF sets = {} THEN 0 ELSE Nth(sets, Cardinality(sets))

\* SQLParser.Parse, UPDATE branch: the clauses, once SET and WHERE are found
ParseUpdateClauses(names, setStr, w) ==
  IF ~w.ok THEN ParseErr("invalid WHERE")
  ELSE ParseOk([Statement EXCEPT !.Type = "UPDATE",
                  !.Collection = TextOf(names[1]), !.Database = TextOf(names[2]),
                  !.Data = ParseSet(setStr, "", <<>>, EmptyRow), !.Filter = w.filter])

ParseUpdateAt(parts, names, setIndex, whereIndex) ==
  IF Len(names) # 2 THEN ParseErr("invalid database name")
  ELSE IF setIndex = 0 THEN ParseErr("UPDATE without SET")
  \* parts[setIndex+1:whereIndex] with whereIndex = -1: slice bounds out of range
  ELSE IF whereIndex = 0 THEN ParsePanic
  ELSE ParseUpdateClauses(names, JoinSP(SubSeq(parts, setIndex + 1, whereIndex - 1)),
                          ParseWhere(JoinSP(SubSeq(parts, whereIndex + 1, Len(parts)))))

\* SQLParser.Parse, UPDATE branch
ParseUpdate(parts) ==
  IF Len(parts) < 4 THEN ParseErr("invalid UPDATE")
  ELSE ParseUpdateAt(parts, Split(parts[2], W(".")),
                     SetIndex(parts, WhereIndex(parts)), WhereIndex(parts))

\* SQLParser.Parse, INSERT branch
ParseInsertNamed(parts, names, json) ==
  IF KW(parts[2]) # "INTO" THEN ParseErr("INSERT without INTO")
  ELSE IF Len(names) # 2 THEN ParseErr("invalid database name")
  ELSE IF KW(parts[4]) # "VALUES" THEN ParseErr("INSERT without VALUES")
  ELSE IF ~json.ok THEN ParseErr("bad JSON")
  ELSE ParseOk([Statement EXCEPT !.Type = "INSERT", !.Collection = TextOf(names[1]),
                  !.Database = TextOf(names[2]), !.Data = json.row])

ParseInsert(parts) ==
  IF Len(parts) < 4 THEN ParseErr("invalid INSERT")
  ELSE ParseInsertNamed(parts, Split(parts[3], W(".")),
                        UnmarshalRow(JoinSP(SubSeq(parts, 5, Len(parts)))))

\* SQLParser.Parse, SELECT branch
ParseSelectNamed(parts, names, cols) ==
  IF KW(parts[3]) # "FROM" THEN ParseErr("SELECT without FROM")
  ELSE IF Len(names) # 2 THEN ParseErr("invalid database name")
  ELSE [panic |-> FALSE, err |-> "",
        stmt |-> [Statement EXCEPT !.Type = "SELECT",
                    !.Collection = TextOf(names[1]), !.Database = TextOf(names[2]),
                    !.Columns = IF parts[2] = <<W("*")>> THEN <<>>
                                ELSE [i \in 1..Len(cols) |-> TextOf(cols[i])]]]

ParseSelectWhere(parts, p, json) ==
  IF p.err # "" \/ Len(parts) = 4 THEN p
  ELSE IF KW(parts[5]) # "WHERE" THEN ParseErr("invalid WHERE")
  ELSE IF ~json.ok THEN ParseErr("bad WHERE JSON")
  ELSE ParseOk([p.stmt EXCEPT !.Filter = [nil |-> FALSE, row |-> json.row]])

ParseSelect(parts) ==
  IF Len(parts) < 4 THEN ParseErr("invalid SELECT")
  ELSE ParseSelectWhere(parts,
                        ParseSelectNamed(parts, Split(parts[4], W(".")),
                                         Split(parts[2], W(","))),
                        UnmarshalRow(JoinSP(SubSeq(parts, 6, Len(parts)))))

\* SQLParser.Parse, CREATE branch
ParseCreateDatabase(parts, names) ==
  IF Len(names) # 2 THEN ParseErr("invalid database name")
  ELSE ParseOk([Statement EXCEPT !.Type = "CREATE_DATABASE",
                  !.Collection = TextOf(names[1]), !.Database = TextOf(names[2]),
                  !.DBType = ParseDBType(parts, 4, "")])

ParseCreate(parts) ==
  IF Len(parts) < 2 THEN ParseErr("invalid CREATE")
  ELSE IF KW(parts[2]) = "COLLECTION"
  THEN IF Len(parts) < 3 THEN ParseErr("missing collection name")
       ELSE ParseOk([Statement EXCEPT !.Type = "CREATE_COLLECTION",
                       !.Collection = TextOf(parts[3]), !.Owner = "root"])
  ELSE IF KW(parts[2]) = "DATABASE"
  THEN IF Len(parts) < 3 THEN ParseErr("missing database name")
       ELSE ParseCreateDatabase(parts, Split(parts[3], W(".")))
  ELSE ParseErr("unsupported CREATE")

\* SQLParser.Parse, SHOW branch
ParseShow(parts) ==
  IF Len(parts) < 2 THEN ParseErr("invalid SHOW")
  ELSE IF KW(parts[2]) = "COLLECTIONS"
  THEN ParseOk([Statement EXCEPT !.Type = "SHOW_COLLECTIONS"])
  ELSE IF KW(parts[2]) = "DATABASES"
  THEN IF Len(parts) < 4 \/ KW(parts[3]) # "FROM" THEN ParseErr("invalid SHOW DATABASES")
       ELSE ParseOk([Statement EXCEPT !.Type = "SHOW_DATABASES",
                       !.Collection = TextOf(parts[4])])
  ELSE ParseErr("unsupported SHOW")

\* SQLParser.Parse, IMPORT branch
ParseImport(parts) ==
  IF Len(parts) < 3 \/ KW(parts[2]) # "FROM" THEN ParseErr("invalid IMPORT")
  ELSE ParseOk([Statement EXCEPT !.Type = "IMPORT",
                  !.FilePath = JoinSP(SubSeq(parts, 3, Len(parts)))])

\* SQLParser.Parse, EXPORT branch
ParseExportNamed(parts, names) ==
  IF Len(names) # 2 THEN ParseErr("invalid database name")
  ELSE ParseOk([Statement EXCEPT !.Type = "EXPORT", !.Collection = TextOf(names[1]),
                  !.Database = TextOf(names[2]),
                  !.FilePath = JoinSP(SubSeq(parts, 4, Len(parts)))])

ParseExport(parts) ==
  IF Len(parts) < 4 \/ KW(parts[3]) # "TO" THEN ParseErr("invalid EXPORT")
  ELSE ParseExportNamed(parts, Split(parts[2], W(".")))

\* SQLParser.Parse, after strings.Fields
ParseParts(parts) ==
  IF Len(parts) = 0 THEN ParseErr("empty SQL")
  ELSE CASE KW(parts[1]) = "INSERT" -> ParseInsert(parts)
         [] KW(parts[1]) = "SELECT" -> ParseSelect(parts)
         [] KW(parts[1]) = "CREATE" -> ParseCreate(parts)
         [] KW(parts[1]) = "SHOW" -> ParseShow(parts)
         [] KW(parts[1]) = "IMPORT" -> ParseImport(parts)
         [] KW(parts[1]) = "EXPORT" -> ParseExport(parts)
         [] KW(parts[1]) = "UPDATE" -> ParseUpdate(parts)
         [] OTHER -> ParseErr("unsupported SQL")

\* SQLParser.Parse
Parse(sql) == ParseParts(Fields(sql))

(***************************************************************************)
(* Roles, permissions and users                                            *)
(***************************************************************************)
Rule(perm, type, name) == [Type |-> type, Permission |-> perm, Name |-> name]

Resource(type, name) == [Type |-> type, Name |-> name]

\* A resource name is a sequence of words, <<>> the empty name.
AnyName == <<>>

\* PermissionManager.initPredefinedRoles
initPredefinedRoles ==
  [admin |-> {Rule(p, "DATABASE", AnyName) :
                p \in {"CREATE_DATABASE", "DROP_DATABASE", "CREATE_USER", "DROP_USER",
                       "GRANT", "REVOKE", "BACKUP", "RESTORE", "VIEW_AUDIT",
                       "MANAGE_AUDIT"}},
   readonly |-> {Rule("SELECT", "TABLE", AnyName)},
   developer |-> {Rule(p, "TABLE", AnyName) :
                    p \in {"SELECT", "INSERT", "UPDATE", "DELETE", "ALTER_TABLE"}}
                 \cup {Rule("CREATE_TABLE", "DATABASE", AnyName)}]

\* regexp: the pattern matches a prefix of the text.  A name is a sequence
\* of characters; "*" stands for the ".*" that strings.ReplaceAll puts in its
\* place, "." is the regexp's any-character, every other character is itself.
RECURSIVE matchHere(_, _)
matchHere(pattern, text) ==
  IF pattern = <<>> THEN TRUE
  ELSE IF Head(pattern) = "*"
  THEN matchHere(Tail(pattern), text) \/ (text # <<>> /\ matchHere(pattern, Tail(text)))
  ELSE /\ text # <<>>
       /\ Head(pattern) \in {".", Head(text)}
       /\ matchHere(Tail(pattern), Tail(text))

\* regexp.MatchString: the pattern matches somewhere in the text
MatchString(pattern, text) ==
  \E i \in 0..Len(text) : matchHere(pattern, SubSeq(text, i + 1, Len(text)))

\* PermissionManager.matchPermissionRule
matchPermissionRule(rule, perm, res) ==
  /\ rule.Permission = perm
  /\ rule.Type = res.Type
  /\ \/ rule.Name = AnyName
     \/ IF \E i \in DOMAIN rule.Name : rule.Name[i] = "*"
        THEN MatchString(rule.Name, res.Name)
        ELSE rule.Name = res.Name

\* PermissionManager.CheckPermission: direct rules first, then the roles
PermissionManagerCheck(uperms, uroles, username, perm, res) ==
  \/ /\ username \in DOMAIN uperms
     /\ \E i \in DOMAIN uperms[username] :
          matchPermissionRule(uperms[username][i], perm, res)
  \/ /\ username \in DOMAIN uroles
     /\ \E i \in DOMAIN uroles[username] :
          /\ uroles[username][i] \in DOMAIN initPredefinedRoles
          /\ \E rule \in initPredefinedRoles[uroles[username][i]] :
               matchPermissionRule(rule, perm, res)

\* UserManager.CheckPermission
CheckPermission(us, uperms, uroles, username, perm, res) ==
  IF username \notin DOMAIN us \/ us[username].Status # "active" THEN FALSE
  ELSE IF username = "root" THEN TRUE
  ELSE IF \E i \in DOMAIN us[username].Roles : us[username].Roles[i] = "admin" THEN TRUE
  ELSE PermissionManagerCheck(uperms, uroles, username, perm, res)

\* A ValidateUser that does not look at the status
ValidateUserAnyStatus(us, username, password) ==
  /\ username \in DOMAIN us
  /\ us[username].Password = password

\* UserManager.ValidateUser
ValidateUser(us, username, password) ==
  /\ username \in DOMAIN us
  /\ us[username].Status = "active"
  /\ us[username].Password = password

\* The roles the permission manager holds for a user
RolesOf(uroles, username) == IF username \in DOMAIN uroles THEN uroles[username] ELSE <<>>

\* An AssignRole that makes the new role the only one
AssignRoleOnly(uroles, username, roleName) ==
  [err |-> "", userRoles |-> (username :> <<roleName>>) @@ uroles]

\* PermissionManager.AssignRole: [err, userRoles]
AssignRoleOp(uroles, username, roleName) ==
  IF roleName \notin DOMAIN initPredefinedRoles
  THEN [err |-> "no such role", userRoles |-> uroles]
  ELSE IF \E i \in DOMAIN RolesOf(uroles, username) : RolesOf(uroles, username)[i] = roleName
  THEN [err |-> "", userRoles |-> uroles]
  ELSE [err |-> "",
        userRoles |-> (username :> Append(RolesOf(uroles, username), roleName)) @@ uroles]

\* UserManager.CreateUser: AssignRole for each role of the new user, up to
\* the first that fails
RECURSIVE AssignRoles(_, _, _)
AssignRolesFrom(r, username, roles) ==
  IF r.err # "" THEN r.userRoles ELSE AssignRoles(r.userRoles, username, roles)

AssignRoles(uroles, username, roles) ==
  IF roles = <<>> THEN uroles
  ELSE AssignRolesFrom(AssignRoleOp(uroles, username, Head(roles)), username, Tail(roles))

(***************************************************************************)
(* Collections                                                             *)
(***************************************************************************)
StorageTypes == {"json", "text", "table", "graph"}

NoCollections == [c \in {} |-> [Owner |-> "", Databases |-> EmptyMap]]

\* os.RemoveAll of the directory of a database
RemoveAll(dk, k) == [x \in DOMAIN dk \ {k} |-> dk[x]]

\* CollectionManager.CreateCollection: [err, collections]
CreateCollection(cols, name, owner) ==
  IF name \in DOMAIN cols THEN [err |-> "collection exists", collections |-> cols]
  ELSE [err |-> "",
        collections |-> (name :> [Owner |-> owner, Databases |-> EmptyMap]) @@ cols]

\* Engine.CreateDatabase and Collection.CreateDatabase: [err, collections, disk]
CreateDatabase(cols, dk, c, d, dbType) ==
  IF c \notin DOMAIN cols
  THEN [err |-> "collection not found", collections |-> cols, disk |-> dk]
  ELSE IF d \in DOMAIN cols[c].Databases
  THEN [err |-> "database exists", collections |-> cols, disk |-> dk]
  ELSE IF dbType \notin StorageTypes
  THEN [err |-> "storage init failed", collections |-> cols,
        disk |-> RemoveAll(dk, <<c, d>>)]
  ELSE [err |-> "",
        collections |-> [cols EXCEPT ![c].Databases = (d :> dbType) @@ @],
        disk |-> dk]

(***************************************************************************)
(* The memory store behind the statements                                  *)
(***************************************************************************)
\* The numbers and the strings that filters order, the strings in the order
\* of Go's < on strings (byte by byte)
Float64 == ("9" :> 9) @@ ("22" :> 22) @@ ("25" :> 25) @@ ("30" :> 30)
GoStrings == <<"25", "9", "Alice", "Bob">>
StringRank(str) == CHOOSE i \in DOMAIN GoStrings : GoStrings[i] = str

\* the sign of v1 against v2
Sign(less, greater) == IF less THEN -1 ELSE IF greater THEN 1 ELSE 0

\* compareValues: strings against strings, float64 against float64, and 0
\* for everything else
compareValues(a, b) ==
  IF a.k = "string" /\ b.k = "string"
  THEN Sign(StringRank(a.v) < StringRank(b.v), StringRank(a.v) > StringRank(b.v))
  ELSE IF a.k = "float64" /\ b.k = "float64"
  THEN Sign(Float64[a.v] < Float64[b.v], Float64[a.v] > Float64[b.v])
  ELSE 0

\* matchSingleCondition
matchSingleCondition(record, column, operator, value) ==
  IF column \notin DOMAIN record THEN FALSE
  ELSE CASE operator = "=" -> record[column] = value
         [] operator = ">" -> compareValues(record[column], value) > 0
         [] operator = "<" -> compareValues(record[column], value) < 0
         [] operator = ">=" -> compareValues(record[column], value) >= 0
         [] operator = "<=" -> compareValues(record[column], value) <= 0
         [] operator = "!=" -> record[column] # value
         [] OTHER -> FALSE

\* a condition object {"operator": ..., "value": ...} of a filter
Cond(operator, value) == [k |-> "map", value |-> value, operator |-> operator]

\* MatchConditions: every field of the filter, a condition object by its
\* operator and anything else by "="
MatchConditions(rec, filter) ==
  filter.nil \/ \A f \in DOMAIN filter.row :
                  IF filter.row[f].k = "map"
                  THEN matchSingleCondition(rec, f, filter.row[f].operator, filter.row[f].value)
                  ELSE matchSingleCondition(rec, f, "=", filter.row[f])

\* MemoryStore.QueryRecords
QueryRecords(d0, c, d, filter) ==
  SelectSeq(Records(d0, c, d), LAMBDA rec : MatchConditions(rec, filter))

\* executeQuery, SELECT: the columns asked for, of each record
FilterColumns(rows, cols) ==
  IF cols = <<>> THEN rows
  ELSE [i \in DOMAIN rows |->
          [f \in {cols[j] : j \in DOMAIN cols} \cap DOMAIN rows[i] |-> rows[i][f]]]

\* MemoryStore.UpdateRecords: every matching record of c.d gets the writes
UpdateRecords(d0, c, d, updates, filter) ==
  IF ~HasDb(d0, c, d) THEN d0
  ELSE PutDb(d0, c, d,
             [i \in DOMAIN d0[c][d] |->
                IF MatchConditions(d0[c][d][i], filter)
                THEN updates @@ d0[c][d][i] ELSE d0[c][d][i]])

(***************************************************************************)
(* The server: sessions, frames and statements.  Messages of the program   *)
(* are written in Latin letters here.                                     *)
(***************************************************************************)
ErrNeedAuth == "need authentication"       \* "需要认证"
ErrUnknownType == "unknown message type"   \* "未知的消息类型"
ErrBadAuth == "invalid auth data"          \* "无效的认证数据: ..."
ErrAuthFailed == "authentication failed"   \* "认证失败"
ErrDenied == "permission denied"           \* "权限不足"
MsgAuthOk == "authenticated"               \* "认证成功"

\* handleConnection: the payload of an Error frame is the error text after
\* this prefix
ErrPrefix == "error: "                     \* "错误: "

\* What the worker writes back
ErrorFrame(e) == [type |-> "Error", msg |-> <<ErrPrefix, e>>, rows |-> <<>>]
ResultFrame(m, rows) == [type |-> "Result", msg |-> <<m>>, rows |-> rows]
NoFrame == [type |-> "none", msg |-> <<>>, rows |-> <<>>]

\* The part of the process a statement can touch
World == [data |-> data, dirty |-> dirty, collections |-> collections,
          dump |-> dump, exported |-> exported, disk |-> disk]

\* What a handler returns: the frame, the world, and the records it passed
\* to AuditLogger.Log
Failed(e, w) == [panic |-> FALSE, resp |-> ErrorFrame(e), w |-> w, log |-> <<>>]
Done(m, rows, w) == [panic |-> FALSE, resp |-> ResultFrame(m, rows), w |-> w, log |-> <<>>]
Panicked(w) == [panic |-> TRUE, resp |-> NoFrame, w |-> w, log |-> <<>>]

\* audit.LogEntry, without the time and the address
LogEntry(level, user, action, object, status) ==
  [Level |-> level, User |-> user, Action |-> action, Object |-> object, Status |-> status]

\* Server.handleQuery: the audit record written after executeQuery
audited(r, user, perm, res) ==
  [r EXCEPT !.log = <<IF r.resp.type = "Error"
                      THEN LogEntry("ERROR", user, perm, <<res.Type, res.Name>>, "FAILED")
                      ELSE LogEntry("INFO", user, perm, <<res.Type, res.Name>>, "SUCCESS")>>]

DumpPath == "dump.suql"

\* A handleMessage that serves every frame of every session
NeedsAuthNever(auth, type) == FALSE

\* handleMessage: an unauthenticated session is served Auth frames only
NeedsAuth(auth, type) == ~auth /\ type # "Auth"

\* A handleQuery that lets every statement through
DeniedNever(user, allowed) == FALSE

\* handleQuery: everyone but root goes through CheckPermission
Denied(user, allowed) == user # "root" /\ ~allowed

\* handleQuery: the statement types that go through the permission check
GatedTypes ==
  {"INSERT", "SELECT", "SHOW_COLLECTIONS", "SHOW_DATABASES", "CREATE_COLLECTION",
   "CREATE_DATABASE", "EXPORT"}

\* handleQuery: the permission of the dispatch table
PermOf(stmt) ==
  CASE stmt.Type = "INSERT" -> "INSERT"
    [] stmt.Type \in {"CREATE_COLLECTION", "CREATE_DATABASE"} -> "CREATE_DATABASE"
    [] OTHER -> "SELECT"

\* handleQuery: the resource of the dispatch table
ResOf(stmt) ==
  IF stmt.Type \in {"INSERT", "SELECT", "EXPORT"}
  THEN Resource("DATABASE", <<stmt.Collection, ".", stmt.Database>>)
  ELSE Resource("DATABASE", AnyName)

\* Server.executeQuery
executeQuery(stmt, w) ==
  CASE stmt.Type = "INSERT" ->
         Done("inserted", <<>>,
              [w EXCEPT !.data = InsertRecordOp(w.data, stmt.Collection, stmt.Database,
                                                stmt.Data),
                        !.dirty = TRUE])
    [] stmt.Type = "SELECT" ->
         Done("", FilterColumns(QueryRecords(w.data, stmt.Collection, stmt.Database,
                                             stmt.Filter), stmt.Columns), w)
    [] stmt.Type = "SHOW_COLLECTIONS" -> Done("collections", <<>>, w)
    [] stmt.Type = "SHOW_DATABASES" ->
         IF stmt.Collection \in DOMAIN w.collections THEN Done("databases", <<>>, w)
         ELSE Failed("collection not found", w)
    [] stmt.Type = "CREATE_COLLECTION" ->
         LET r == CreateCollection(w.collections, stmt.Collection, stmt.Owner)
         IN  IF r.err # "" THEN Failed(r.err, w)
             ELSE Done("collection created", <<>>, [w EXCEPT !.collections = r.collections])
    [] stmt.Type = "CREATE_DATABASE" ->
         LET r == CreateDatabase(w.collections, w.disk, stmt.Collection, stmt.Database,
                                 stmt.DBType)
             w2 == [w EXCEPT !.collections = r.collections, !.disk = r.disk]
         IN  IF r.err # "" THEN Failed(r.err, w2) ELSE Done("database created", <<>>, w2)
    [] stmt.Type = "EXPORT" ->
         IF stmt.Collection \notin DOMAIN w.collections
         THEN Failed("collection not found", w)
         ELSE IF stmt.Database \notin DOMAIN w.collections[stmt.Collection].Databases
         THEN Failed("database not found", w)
         ELSE IF ~HasDb(w.data, stmt.Collection, stmt.Database)
         THEN Failed("export failed", w)
         ELSE Done("exported", <<>>,
                   IF TextOf(stmt.FilePath) = DumpPath
                   THEN [w EXCEPT !.dump = File(ExportText(w.data, stmt.Collection,
                                                           stmt.Database)),
                                  !.exported = [c |-> stmt.Collection,
                                                d |-> stmt.Database,
                                                rows |-> w.data[stmt.Collection]
                                                               [stmt.Database]]]
                   ELSE w)
    [] OTHER -> Failed("unsupported statement", w)

\* Server.handleQuery, IMPORT branch: the reply to what ImportFromFile returned
importReply(r, w) ==
  IF r.err # "" THEN Failed(r.err, [w EXCEPT !.data = r.data, !.dirty = r.dirty])
  ELSE Done("imported", <<>>, [w EXCEPT !.data = r.data, !.dirty = r.dirty])

\* Server.handleQuery, IMPORT branch
handleImport(parts, w) ==
  IF Len(parts) < 4 \/ KW(parts[2]) # "FROM" \/ KW(parts[4]) # "TO"
  THEN Failed("invalid IMPORT", w)
  \* parts[4] of a four-word statement: index out of range
  ELSE IF Len(parts) < 5 THEN Panicked(w)
  ELSE importReply(ImportFromFileOp(w.data, w.dirty,
                                    IF TextOf(parts[3]) = DumpPath THEN w.dump ELSE NoFile,
                                    TextOf(parts[5])), w)

\* Server.handleQuery, once the statement is parsed
handleStatement(user, parts, p, w) ==
  IF p.panic THEN Panicked(w)
  ELSE IF p.err # "" THEN Failed(p.err, w)
  ELSE IF p.stmt.Type = "IMPORT" THEN handleImport(parts, w)
  ELSE IF p.stmt.Type = "UPDATE"
  THEN Done("updated", <<>>,
            [w EXCEPT !.data = UpdateRecords(w.data, p.stmt.Collection, p.stmt.Database,
                                             p.stmt.Data, p.stmt.Filter)])
  ELSE IF p.stmt.Type \notin GatedTypes THEN Failed("unsupported statement", w)
  ELSE IF Denied(user, CheckPermission(users, userPermissions, userRoles, user,
                                       PermOf(p.stmt), ResOf(p.stmt)))
  THEN Failed(ErrDenied, w)
  ELSE audited(executeQuery(p.stmt, w), user, PermOf(p.stmt), ResOf(p.stmt))

\* Server.handleQuery
handleQuery(user, payload, w) == handleStatement(user, Fields(payload), Parse(payload), w)

\* handleAuth, the decoding of the payload: json.Unmarshal into two strings
Credentials(payload) ==
  LET r == UnmarshalRow(payload)
      str(f) == IF f \in DOMAIN r.row THEN r.row[f].v ELSE ""
      fits(f) == f \notin DOMAIN r.row \/ r.row[f].k \in {"string", "nil"}
  IN  [ok |-> r.ok /\ fits("username") /\ fits("password"),
       username |-> str("username"), password |-> str("password")]

\* A handleAuth that takes the name of the payload before it validates
handleAuthEager(client, payload) ==
  LET cred == Credentials(payload)
      named == [client EXCEPT !.user = cred.username]
  IN  IF ~cred.ok THEN [resp |-> ErrorFrame(ErrBadAuth), client |-> client, log |-> <<>>]
      ELSE IF ValidateUser(users, cred.username, cred.password)
      THEN [resp |-> ResultFrame(MsgAuthOk, <<>>), client |-> [named EXCEPT !.auth = TRUE],
            log |-> <<LogEntry("INFO", cred.username, "AUTH", <<"USER">>, "SUCCESS")>>]
      ELSE [resp |-> ErrorFrame(ErrAuthFailed), client |-> named, log |-> <<>>]

\* Server.handleAuth: [resp, client]
handleAuth(client, payload) ==
  LET cred == Credentials(payload)
  IN  IF ~cred.ok THEN [resp |-> ErrorFrame(ErrBadAuth), client |-> client, log |-> <<>>]
      ELSE IF ValidateUser(users, cred.username, cred.password)
      THEN [resp |-> ResultFrame(MsgAuthOk, <<>>),
            client |-> [client EXCEPT !.auth = TRUE, !.user = cred.username],
            log |-> <<LogEntry("INFO", cred.username, "AUTH", <<"USER">>, "SUCCESS")>>]
      ELSE [resp |-> ErrorFrame(ErrAuthFailed), client |-> client, log |-> <<>>]

\* handleMessage: what the session and the world become with a handler's reply
authReply(r, w) ==
  [panic |-> FALSE, resp |-> r.resp, client |-> r.client, w |-> w, log |-> r.log]
queryReply(r, client) ==
  [panic |-> r.panic, resp |-> r.resp, client |-> client, w |-> r.w, log |-> r.log]

\* Server.handleMessage and the reply of handleConnection:
\* [panic, resp, client, w, log]
handleMessage(client, type, payload) ==
  IF NeedsAuth(client.auth, type)
  THEN [panic |-> FALSE, resp |-> ErrorFrame(ErrNeedAuth), client |-> client, w |-> World,
        log |-> <<>>]
  ELSE IF type = "Auth" THEN authReply(handleAuth(client, payload), World)
  ELSE IF type = "Query" THEN queryReply(handleQuery(client.user, payload, World), client)
  ELSE [panic |-> FALSE, resp |-> ErrorFrame(ErrUnknownType), client |-> client,
        w |-> World, log |-> <<>>]

(***************************************************************************)
(* Frames the clients of the model send                                    *)
(***************************************************************************)
Conns == {1}
NewUsers == {"bob"}
NewRoles == {<<"readonly">>, <<"admin">>}

Dot(c, d) == <<W(c), W("."), W(d)>>

AuthText(u, p) ==
  <<W("{"), S("username"), W(":"), SP, S(u), W(","), SP, S("password"), W(":"), SP,
    S(p), W("}")>>

AuthPayloads ==
  {AuthText("root", "123456"), AuthText("bob", "pw"), AuthText("bob", "bad"),
   Words(<<"root", "123456">>)}

QInsert ==
  Words(<<"INSERT", "INTO">>) \o <<SP>> \o Dot("app", "users")
  \o <<SP, W("VALUES"), SP, W("{"), S("name"), W(":"), SP, S("Bob"), W("}")>>
QSelect == Words(<<"SELECT", "*", "FROM">>) \o <<SP>> \o Dot("app", "users")
QShowCollections == Words(<<"SHOW", "COLLECTIONS">>)
QShowDatabases == Words(<<"SHOW", "DATABASES", "FROM", "app">>)
QCreateCollection == Words(<<"CREATE", "COLLECTION", "app">>)
QCreateDatabase ==
  Words(<<"CREATE", "DATABASE">>) \o <<SP>> \o Dot("app", "users")
  \o <<SP>> \o Words(<<"TYPE", "json">>)
QCreateNoType == Words(<<"CREATE", "DATABASE">>) \o <<SP>> \o Dot("app", "logs")
QExport == <<W("EXPORT"), SP>> \o Dot("app", "users") \o <<SP>> \o Words(<<"TO", DumpPath>>)
QImport == Words(<<"IMPORT", "FROM", DumpPath, "TO", "imp">>)
QImportNoTarget == Words(<<"IMPORT", "FROM", DumpPath, "TO">>)
QUpdateNoWhere ==
  <<W("UPDATE"), SP>> \o Dot("app", "users")
  \o <<SP, W("SET"), SP, W("name"), W("="), W("Al")>>
QUpdate == QUpdateNoWhere \o <<SP, W("WHERE"), SP, W("name"), W("="), W("Bob")>>
QDrop == Words(<<"DROP", "app">>)

QueryPayloads ==
  {QInsert, QSelect, QShowCollections, QShowDatabases, QCreateCollection,
   QCreateDatabase, QCreateNoType, QExport, QImport, QImportNoTarget, QUpdate,
   QUpdateNoWhere, QDrop}

\* The frames: a type of the protocol ("Other": a type value beyond 3) and a payload
Frames ==
  ({"Auth"} \X AuthPayloads) \cup ({"Query"} \X QueryPayloads)
  \cup ({"Result", "Other"} \X {QSelect})

(***************************************************************************)
(* The server as a state machine                                           *)
(***************************************************************************)
NoClient == [open |-> FALSE, auth |-> FALSE, user |-> ""]

InitServer ==
  /\ clients = [c \in Conns |-> NoClient]
  /\ users = ("root" :> [Password |-> "123456", Roles |-> <<"admin">>, Status |-> "active"])
  /\ userRoles = ("root" :> <<"admin">>)
  /\ userPermissions = [u \in {} |-> <<>>]
  /\ collections = NoCollections
  /\ last = [seq |-> 0, conn |-> 0, type |-> "", payload |-> <<>>, resp |-> NoFrame,
             log |-> <<>>]

\* Serve: a connection is accepted and registered, unauthenticated
Accept(c) ==
  /\ running /\ ~clients[c].open
  /\ clients' = [clients EXCEPT ![c] = [open |-> TRUE, auth |-> FALSE, user |-> ""]]
  /\ UNCHANGED <<users, userRoles, userPermissions, collections, last, storeVars, idxVars, auxVars>>

\* handleConnection: the read fails (the peer went away), the worker returns
Disconnect(c) ==
  /\ running /\ clients[c].open
  /\ clients' = [clients EXCEPT ![c] = NoClient]
  /\ UNCHANGED <<users, userRoles, userPermissions, collections, last, storeVars, idxVars, auxVars>>

\* handleConnection: one frame read, handled and answered.  A panic in the
\* worker goroutine is not recovered and ends the process.
Frame(c, type, payload) ==
  /\ running /\ clients[c].open /\ ~saving.active
  /\ \E r \in {handleMessage(clients[c], type, payload)} :
         /\ TotalRecords(r.w.data) <= MaxRecords
         /\ last' = [seq |-> 1 - last.seq, conn |-> c, type |-> type,
                     payload |-> payload, resp |-> r.resp, log |-> r.log]
         /\ running' = ~r.panic
         /\ clients' = IF r.panic THEN [x \in Conns |-> NoClient]
                       ELSE [clients EXCEPT ![c] = r.client]
         /\ data' = IF r.panic THEN EmptyMap ELSE r.w.data
         /\ dirty' = IF r.panic THEN FALSE ELSE r.w.dirty
         /\ collections' = r.w.collections
         /\ dump' = r.w.dump
         /\ exported' = r.w.exported
         /\ disk' = r.w.disk
  /\ UNCHANGED <<users, userRoles, userPermissions, saving, saveErr, crashPc, saved,
                 boots, lastImport, idxVars, auxVars>>

\* UserManager.CreateUser
CreateUser(u, password, roles) ==
  /\ running
  /\ u \notin DOMAIN users
  /\ users' = (u :> [Password |-> password, Roles |-> roles, Status |-> "active"]) @@ users
  /\ userRoles' = AssignRoles(userRoles, u, roles)
  /\ UNCHANGED <<clients, userPermissions, collections, last, storeVars, idxVars, auxVars>>

\* UserManager.LockUser
LockUser(u) ==
  /\ running
  /\ u \in DOMAIN users /\ users[u].Status = "active"
  /\ users' = [users EXCEPT ![u].Status = "locked"]
  /\ UNCHANGED <<clients, userRoles, userPermissions, collections, last, storeVars, idxVars, auxVars>>

\* UserManager.UnlockUser
UnlockUser(u) ==
  /\ running
  /\ u \in DOMAIN users /\ users[u].Status = "locked"
  /\ users' = [users EXCEPT ![u].Status = "active"]
  /\ UNCHANGED <<clients, userRoles, userPermissions, collections, last, storeVars, idxVars, auxVars>>

\* PermissionManager.GrantPermission, of a rule the user does not hold yet
GrantPermission(u, rule) ==
  /\ running
  /\ LET have == IF u \in DOMAIN userPermissions THEN userPermissions[u] ELSE <<>>
     IN  /\ \A i \in DOMAIN have : have[i] # rule
         /\ userPermissions' = (u :> Append(have, rule)) @@ userPermissions
  /\ UNCHANGED <<clients, users, userRoles, collections, last, storeVars, idxVars, auxVars>>

(***************************************************************************)
(* The B+-tree index.  Nodes are numbered in the order they are made; 0 is *)
(* the nil pointer.                                                        *)
(***************************************************************************)
Degree == 1
MaxNodes == 4
MaxPostings == 2 * Degree + 2
IndexKeys == 1..(2 * Degree + 1)
RowIds == {1, 2}

Leaf(keys, values, next) ==
  [IsLeaf |-> TRUE, Keys |-> keys, Children |-> <<>>, Values |-> values, Next |-> next]

\* BPlusTreeIndex.findPos: the first position whose key is >= key, counted
\* from 0; len(keys) when there is none
findPos(keys, key) ==
  LET P == {i \in 1..Len(keys) : keys[i] >= key}
  IN  IF P = {} THEN Len(keys) ELSE Nth(P, 1) - 1

\* BPlusTreeIndex.findLeaf
RECURSIVE findLeafFrom(_, _, _)
findLeafFrom(ns, n, key) ==
  IF ns[n].IsLeaf THEN n
  ELSE LET pos == findPos(ns[n].Keys, key)
       IN  IF pos = Len(ns[n].Keys)
           THEN findLeafFrom(ns, ns[n].Children[pos + 1], key)
           ELSE findLeafFrom(ns, ns[n].Children[pos + 2], key)

findLeaf(rt, ns, key) == findLeafFrom(ns, rt, key)

\* insertion of x at position pos (counted from 0)
InsertAt(s, pos, x) == SubSeq(s, 1, pos) \o <<x>> \o SubSeq(s, pos + 1, Len(s))

RemoveAt(s, pos) == SubSeq(s, 1, pos) \o SubSeq(s, pos + 2, Len(s))

\* BPlusTreeIndex.splitLeaf: [root, nodes]
splitLeaf(rt, ns, leaf) ==
  LET mid == Len(ns[leaf].Keys) \div 2
      n == Len(ns)
      newLeaf == Leaf(SubSeq(ns[leaf].Keys, mid + 1, Len(ns[leaf].Keys)),
                      SubSeq(ns[leaf].Values, mid + 1, Len(ns[leaf].Values)),
                      ns[leaf].Next)
      old == [ns[leaf] EXCEPT !.Keys = SubSeq(@, 1, mid), !.Values = SubSeq(@, 1, mid),
                              !.Next = n + 1]
      ns2 == Append([ns EXCEPT ![leaf] = old], newLeaf)
  IN  IF leaf = rt
      THEN [root |-> n + 2,
            nodes |-> Append(ns2, [IsLeaf |-> FALSE, Keys |-> <<newLeaf.Keys[1]>>,
                                   Children |-> <<leaf, n + 1>>, Values |-> <<>>,
                                   Next |-> 0])]
      ELSE [root |-> rt, nodes |-> ns2]

\* BPlusTreeIndex.Add: [root, nodes]
AddOp(rt, ns, key, rowID) ==
  LET leaf == findLeaf(rt, ns, key)
      pos == findPos(ns[leaf].Keys, key)
      grown == [ns EXCEPT ![leaf].Keys = InsertAt(@, pos, key),
                          ![leaf].Values = InsertAt(@, pos, <<rowID>>)]
  IN  IF pos < Len(ns[leaf].Keys) /\ ns[leaf].Keys[pos + 1] = key
      THEN [root |-> rt, nodes |-> [ns EXCEPT ![leaf].Values[pos + 1] = Append(@, rowID)]]
      ELSE IF Len(grown[leaf].Keys) > 2 * Degree THEN splitLeaf(rt, grown, leaf)
      ELSE [root |-> rt, nodes |-> grown]

\* BPlusTreeIndex.Find: the row ids under the key, <<>> when there is none
Find(rt, ns, key) ==
  LET leaf == findLeaf(rt, ns, key)
      pos == findPos(ns[leaf].Keys, key)
  IN  IF pos < Len(ns[leaf].Keys) /\ ns[leaf].Keys[pos + 1] = key
      THEN ns[leaf].Values[pos + 1]
      ELSE <<>>

\* BPlusTreeIndex.Remove: nodes
RemoveOp(rt, ns, key, rowID) ==
  LET leaf == findLeaf(rt, ns, key)
      pos == findPos(ns[leaf].Keys, key)
      newValues == SelectSeq(ns[leaf].Values[pos + 1], LAMBDA v : v # rowID)
  IN  IF pos < Len(ns[leaf].Keys) /\ ns[leaf].Keys[pos + 1] = key
      THEN IF newValues = <<>>
           THEN [ns EXCEPT ![leaf].Keys = RemoveAt(@, pos),
                           ![leaf].Values = RemoveAt(@, pos)]
           ELSE [ns EXCEPT ![leaf].Values[pos + 1] = newValues]
      ELSE ns

NoPostings == [k \in IndexKeys |-> [r \in RowIds |-> 0]]

\* NewBPlusTreeIndex: the root is an empty leaf
InitIndex ==
  /\ root = 1
  /\ nodes = <<Leaf(<<>>, <<>>, 0)>>
  /\ postings = NoPostings

RECURSIVE SumPostings(_, _)
SumPostings(p, pairs) ==
  IF pairs = {} THEN 0
  ELSE LET x == CHOOSE y \in pairs : TRUE
       IN  p[x[1]][x[2]] + SumPostings(p, pairs \ {x})

TotalPostings(p) == SumPostings(p, IndexKeys \X RowIds)

\* BPlusTreeIndex.Add
Add(key, rowID) ==
  /\ TotalPostings(postings) < MaxPostings
  /\ \E r \in {AddOp(root, nodes, key, rowID)} :
         /\ Len(r.nodes) <= MaxNodes
         /\ root' = r.root
         /\ nodes' = r.nodes
  /\ postings' = [postings EXCEPT ![key][rowID] = @ + 1]
  /\ UNCHANGED <<storeVars, srvVars, auxVars>>

\* BPlusTreeIndex.Remove
Remove(key, rowID) ==
  /\ root' = root
  /\ nodes' = RemoveOp(root, nodes, key, rowID)
  /\ postings' = [postings EXCEPT ![key][rowID] = IF @ > 0 THEN @ - 1 ELSE 0]
  /\ UNCHANGED <<storeVars, srvVars, auxVars>>

(***************************************************************************)
(* The memory store and its files: inserts, SaveToDisk step by step (a     *)
(* crash can fall between any two file operations), restart, export and    *)
(* import.                                                                 *)
(***************************************************************************)
MaxBoots == 1

NoKey == <<"", "">>
Idle == [active |-> FALSE, todo |-> {}, cur |-> NoKey, pc |-> "next"]
EmptyDisk == [k \in {} |-> NoFiles]

InitStore ==
  /\ running = TRUE
  /\ data = EmptyMap
  /\ dirty = FALSE
  /\ disk = EmptyDisk
  /\ dump = NoFile
  /\ saving = Idle
  /\ saveErr = FALSE
  /\ crashPc = [pc |-> "none", key |-> NoKey]
  /\ saved = [valid |-> FALSE, data |-> EmptyMap]
  /\ boots = 0
  /\ exported = [c |-> "", d |-> "", rows |-> <<>>]
  /\ lastImport = [seq |-> 0, target |-> "", err |-> ""]

\* MemoryStore.InsertRecord
InsertRecord(c, d, rec) ==
  /\ running /\ ~saving.active
  /\ TotalRecords(data) < MaxRecords
  /\ data' = InsertRecordOp(data, c, d, rec)
  /\ dirty' = TRUE
  /\ UNCHANGED <<running, disk, dump, saving, saveErr, crashPc, saved, boots, exported, lastImport,
                 srvVars, idxVars, auxVars>>

\* SaveToDisk takes the read lock and starts to range over the map
SaveBegin ==
  /\ running /\ ~saving.active
  /\ saving' = [active |-> TRUE, todo |-> DbKeys(data), cur |-> NoKey, pc |-> "next"]
  /\ saveErr' = FALSE
  /\ saved' = [valid |-> FALSE, data |-> EmptyMap]
  /\ UNCHANGED <<running, data, dirty, disk, dump, crashPc, boots, exported, lastImport,
                 srvVars, idxVars, auxVars>>

\* SaveToDisk, next database: MkdirAll, marshal, rename data.sudb to .bak
SaveNext(k) ==
  /\ running /\ saving.active /\ saving.pc = "next" /\ k \in saving.todo
  /\ disk' = (k :> SaveRenameBak(FilesOf(disk, k))) @@ disk
  /\ saving' = [saving EXCEPT !.todo = @ \ {k}, !.cur = k, !.pc = "renamed"]
  /\ UNCHANGED <<running, data, dirty, dump, saveErr, crashPc, saved, boots, exported, lastImport,
                 srvVars, idxVars, auxVars>>

\* SaveToDisk: os.WriteFile of data.sudb.tmp; on failure on to the next database
SaveWrite(fail) ==
  /\ running /\ saving.active /\ saving.pc = "renamed"
  /\ IF fail
     THEN /\ saveErr' = TRUE
          /\ saving' = [saving EXCEPT !.cur = NoKey, !.pc = "next"]
          /\ disk' = disk
     ELSE /\ saveErr' = saveErr
          /\ saving' = [saving EXCEPT !.pc = "written"]
          /\ disk' = [disk EXCEPT ![saving.cur] =
                        SaveWriteTmp(@, data[saving.cur[1]][saving.cur[2]])]
  /\ UNCHANGED <<running, data, dirty, dump, crashPc, saved, boots, exported, lastImport,
                 srvVars, idxVars, auxVars>>

\* SaveToDisk: os.Rename of data.sudb.tmp to data.sudb; on failure the tmp
\* file is removed and the loop goes on
SaveRename(fail) ==
  /\ running /\ saving.active /\ saving.pc = "written"
  /\ saveErr' = (saveErr \/ fail)
  /\ saving' = [saving EXCEPT !.cur = NoKey, !.pc = "next"]
  /\ disk' = [disk EXCEPT ![saving.cur] =
                IF fail THEN SaveRemoveTmp(@) ELSE SaveRenameTmp(@)]
  /\ UNCHANGED <<running, data, dirty, dump, crashPc, saved, boots, exported, lastImport,
                 srvVars, idxVars, auxVars>>

\* SaveToDisk: the loop is over; lastSave set, dirty cleared, nil returned
SaveEnd ==
  /\ running /\ saving.active /\ saving.pc = "next" /\ saving.todo = {}
  /\ saving' = Idle
  /\ dirty' = FALSE
  /\ saved' = IF saveErr THEN saved ELSE [valid |-> TRUE, data |-> data]
  /\ UNCHANGED <<running, data, disk, dump, saveErr, crashPc, boots, exported, lastImport,
                 srvVars, idxVars, auxVars>>

\* The process dies; memory is lost, the files stay as they are
Crash ==
  /\ running /\ boots < MaxBoots
  /\ running' = FALSE
  /\ data' = EmptyMap
  /\ dirty' = FALSE
  /\ saving' = Idle
  /\ crashPc' = [pc |-> IF saving.active THEN saving.pc ELSE "idle", key |-> saving.cur]
  /\ UNCHANGED <<disk, dump, saveErr, saved, boots, exported, lastImport,
                 srvVars, idxVars, auxVars>>

\* Restart: NewMemoryStore loads from disk and NewEngine loads once more
Boot ==
  /\ ~running
  /\ running' = TRUE
  /\ data' = LoadFromDiskData(LoadFromDiskFiles(disk))
  /\ disk' = LoadFromDiskFiles(LoadFromDiskFiles(disk))
  /\ dirty' = FALSE
  /\ boots' = boots + 1
  /\ UNCHANGED <<dump, saving, saveErr, crashPc, saved, exported, lastImport,
                 srvVars, idxVars, auxVars>>

\* MemoryStore.ExportDatabase of a database the store holds
ExportDatabase(c, d) ==
  /\ running
  /\ HasDb(data, c, d)
  /\ dump' = File(ExportText(data, c, d))
  /\ exported' = [c |-> c, d |-> d, rows |-> data[c][d]]
  /\ UNCHANGED <<running, data, dirty, disk, saving, saveErr, crashPc, saved, boots, lastImport,
                 srvVars, idxVars, auxVars>>

\* MemoryStore.ImportFromFile
ImportFromFile(target) ==
  /\ running /\ ~saving.active
  /\ TotalRecords(data) <= MaxRecords
  /\ \E r \in {ImportFromFileOp(data, dirty, dump, target)} :
         /\ data' = r.data
         /\ dirty' = r.dirty
         /\ lastImport' = [seq |-> 1 - lastImport.seq, target |-> target, err |-> r.err]
  /\ UNCHANGED <<running, disk, dump, saving, saveErr, crashPc, saved, boots, exported,
                 srvVars, idxVars, auxVars>>

(***************************************************************************)
(* The permission manager on its own                                       *)
(***************************************************************************)
RbacUsers == {"bob", "eve"}
RbacRoles == {"admin", "readonly", "developer", "auditor"}
RbacRules == {Rule("SELECT", "DATABASE", AnyName), Rule("INSERT", "TABLE", <<"a", "*">>)}

\* PermissionManager.AssignRole
AssignRole(u, roleName) ==
  /\ \E r \in {AssignRoleOp(userRoles, u, roleName)} :
       /\ userRoles' = r.userRoles
       /\ call' = [op |-> "AssignRole", args |-> <<u, roleName>>, ret |-> r.err]
  /\ UNCHANGED <<clients, users, userPermissions, collections, last, storeVars, idxVars, wire, conns, lockVars, moreVars>>

\* The names of the model, character by character
RuleNames ==
  {<<>>, <<"a", "b">>, <<"a", "*">>, <<"*", "b">>, <<"a", ".", "b">>, <<"*">>,
   <<"a", "*", "b">>}
ResNames ==
  {<<>>, <<"a">>, <<"a", "b">>, <<"b", "a">>, <<"a", "x", "b">>, <<"a", ".", "b">>,
   <<"c", "a", "b", "c">>}
MatchPerms == {"SELECT", "INSERT"}
MatchTypes == {"DATABASE", "TABLE"}

\* matchPermissionRule(rule, perm, res)
Match(rule, perm, res) ==
  /\ call' = [op |-> "matchPermissionRule", args |-> <<rule, perm, res>>,
              ret |-> matchPermissionRule(rule, perm, res)]
  /\ UNCHANGED <<storeVars, srvVars, idxVars, wire, conns, lockVars, moreVars>>

(***************************************************************************)
(* Queries with filters                                                    *)
(***************************************************************************)
MaxRows == 3

Num(text) == [v |-> text, k |-> "float64"]
Str(text) == [v |-> text, k |-> "string"]
True == [v |-> "true", k |-> "bool"]

\* records with the field age as a number, as a string and not at all, and
\* one with a boolean
QueryRows ==
  {("age" :> Num("22")), ("age" :> Num("25")), ("age" :> Num("30")) @@ ("name" :> Str("Bob")),
   ("age" :> Str("9")), Bob, ("age" :> True)}

QueryOperators == {"=", ">", "<", ">=", "<=", "!="}
QueryValues == {Num("25"), Str("25"), True}

\* no filter, a scalar, a condition object, and two fields together
QueryFilters ==
  {NoFilter}
  \cup {[nil |-> FALSE, row |-> ("age" :> v)] : v \in QueryValues}
  \cup {[nil |-> FALSE, row |-> ("age" :> Cond(o, v))] : o \in QueryOperators, v \in QueryValues}
  \cup {[nil |-> FALSE, row |-> ("age" :> Cond(o, Num("22"))) @@ ("name" :> Str("Bob"))] :
          o \in {">", "<="}}

\* InsertRecord into app.users
Fill(rec) ==
  /\ TotalRecords(data) < MaxRows
  /\ data' = InsertRecordOp(data, "app", "users", rec)
  /\ dirty' = TRUE
  /\ UNCHANGED <<running, disk, dump, saving, saveErr, crashPc, saved, boots, exported, lastImport,
                 srvVars, idxVars, auxVars>>

\* QueryRecords(c, d, filter): the store is read under the read lock
Query(c, d, filter) ==
  /\ call' = [op |-> "QueryRecords", args |-> <<c, d, filter>>,
              ret |-> QueryRecords(data, c, d, filter)]
  /\ UNCHANGED <<storeVars, srvVars, idxVars, wire, conns, lockVars, moreVars>>

(***************************************************************************)
(* The collection manager on its own                                       *)
(***************************************************************************)
MaxDatabases == 8
QuotaColls == {"app"}
QuotaDbs == {"d1", "d2", "d3", "d4", "d5", "d6", "d7", "d8", "d9"}
QuotaTypes == {"json", "blob"}

\* CollectionManager.CreateCollection
NewCollection(c, owner) ==
  /\ \E r \in {CreateCollection(collections, c, owner)} :
       /\ collections' = r.collections
       /\ call' = [op |-> "CreateCollection", args |-> <<c, owner>>, ret |-> r.err]
  /\ UNCHANGED <<clients, users, userRoles, userPermissions, last, storeVars, idxVars, wire, conns, lockVars, moreVars>>

\* Engine.CreateDatabase
NewDatabase(c, d, dbType) ==
  /\ \E r \in {CreateDatabase(collections, disk, c, d, dbType)} :
       /\ collections' = r.collections
       /\ disk' = r.disk
       /\ call' = [op |-> "CreateDatabase", args |-> <<c, d, dbType>>, ret |-> r.err]
  /\ UNCHANGED <<clients, users, userRoles, userPermissions, last, running, data, dirty,
                 dump, saving, saveErr, crashPc, saved, boots, exported, lastImport,
                 idxVars, wire, conns, lockVars, moreVars>>

(***************************************************************************)
(* Backups restored                                                        *)
(***************************************************************************)
\* CollectionManager.DeleteCollection: [err, collections, disk]
DeleteCollection(cols, dk, name) ==
  IF name \notin DOMAIN cols
  THEN [err |-> "collection not found", collections |-> cols, disk |-> dk]
  ELSE [err |-> "",
        collections |-> [c \in DOMAIN cols \ {name} |-> cols[c]],
        disk |-> [k \in {x \in DOMAIN dk : x[1] # name} |-> dk[k]]]

\* A backup: whether <id>.json can be read and parsed, the collection it
\* names, the state of <id>.tar.gz, whether the archive holds the directory
\* of the collection, and what that directory holds
Backup(manifest, name, archive, hasDir) ==
  [name |-> name, manifest |-> manifest, archive |-> archive, hasDir |-> hasDir,
   coll |-> [Owner |-> "root", Databases |-> ("users" :> "json")],
   tree |-> (<<name, "users">> :> [NoFiles EXCEPT !.live = File(MarshalIndentRows(<<Alice>>))])]

\* RestoreCollection from the rename on: the extracted directory moved into
\* the data root, the collections loaded again
restoreInto(del, b, fault) ==
  IF fault = "rename" \/ ~b.hasDir
  THEN [err |-> "restore files failed", collections |-> del.collections, disk |-> del.disk]
  ELSE [err |-> "",
        collections |-> (b.name :> b.coll) @@ del.collections,
        disk |-> b.tree @@ del.disk]

\* RestoreCollection after the extraction: the live collection deleted
restoreOver(del, b, fault) ==
  IF del.err # "" THEN del ELSE restoreInto(del, b, fault)

\* BackupManager.RestoreCollection: [err, collections, disk].  fault is the
\* I/O failure of this call: none, in the extraction, or in the rename.
RestoreCollection(cols, dk, b, fault) ==
  IF ~b.manifest THEN [err |-> "backup info", collections |-> cols, disk |-> dk]
  ELSE IF b.archive = "missing"
  THEN [err |-> "open backup file", collections |-> cols, disk |-> dk]
  ELSE IF b.archive = "corrupt"
  THEN [err |-> "unpack backup file", collections |-> cols, disk |-> dk]
  ELSE IF fault = "extract"
  THEN [err |-> "read backup file", collections |-> cols, disk |-> dk]
  ELSE restoreOver(DeleteCollection(cols, dk, b.name), b, fault)

Backups ==
  {Backup(m, "app", a, h) : m \in BOOLEAN, a \in {"missing", "corrupt", "ok"}, h \in BOOLEAN}
Faults == {"none", "extract", "rename"}

\* Engine.RestoreCollection(backupID)
Restore(b, fault) ==
  /\ \E r \in {RestoreCollection(collections, disk, b, fault)} :
       /\ collections' = r.collections
       /\ disk' = r.disk
       /\ call' = [op |-> "RestoreCollection", args |-> <<b, fault>>, ret |-> r.err]
  /\ UNCHANGED <<clients, users, userRoles, userPermissions, last, running, data, dirty,
                 dump, saving, saveErr, crashPc, saved, boots, exported, lastImport,
                 idxVars, wire, conns, lockVars, moreVars>>

(***************************************************************************)
(* The user manager on its own                                             *)
(***************************************************************************)
UmUsers == {"root", "bob"}
UmPasswords == {"pw", "123456"}
UmRoles == {<<"readonly">>, <<"admin", "developer">>, <<"auditor">>}

\* UserManager.ValidateUser
Validate(u, password) ==
  /\ call' = [op |-> "ValidateUser", args |-> <<u, password>>,
              ret |-> ValidateUser(users, u, password)]
  /\ UNCHANGED <<storeVars, srvVars, idxVars, wire, conns, lockVars, moreVars>>

\* UserManager.CreateUser: [err, users, userRoles].  The user is put into
\* the map, the roles are assigned up to the first that fails, the map is
\* saved; saveFails says that the write of the user file fails.
CreateUserOp(us, uroles, username, password, roles, saveFails) ==
  IF username \in DOMAIN us
  THEN [err |-> "user exists", users |-> us, userRoles |-> uroles]
  ELSE [err |-> IF \E i \in DOMAIN roles : roles[i] \notin DOMAIN initPredefinedRoles
                THEN "no such role"
                ELSE IF saveFails THEN "save failed" ELSE "",
        users |-> (username :> [Password |-> password, Roles |-> roles, Status |-> "active"])
                  @@ us,
        userRoles |-> AssignRoles(uroles, username, roles)]

\* UserManager.CreateUser(username, password, roles)
NewUser(u, password, roles, saveFails) ==
  /\ \E r \in {CreateUserOp(users, userRoles, u, password, roles, saveFails)} :
       /\ users' = r.users
       /\ userRoles' = r.userRoles
       /\ call' = [op |-> "CreateUser", args |-> <<u, password, roles>>, ret |-> r.err]
  /\ UNCHANGED <<clients, userPermissions, collections, last, storeVars, idxVars, wire, conns,
                 lockVars, moreVars>>

(***************************************************************************)
(* The frame codec                                                         *)
(***************************************************************************)
MaxFrames == 2

\* uint32(x) of a non-negative x: the low 32 bits, by 16-bit halves
Uint32(n) == (((n \div 65536) % 65536) * 65536) + (n % 65536)

\* A binary.Write that puts the low byte first
PutUint32LittleEndian(n) ==
  <<n % 256, (n \div 256) % 256, (n \div 65536) % 256, (n \div 16777216) % 256>>

\* binary.Write / binary.Read of one uint32 field, binary.BigEndian
PutUint32(n) ==
  <<(n \div 16777216) % 256, (n \div 65536) % 256, (n \div 256) % 256, n % 256>>
GetUint32(b) == b[1] * 16777216 + b[2] * 65536 + b[3] * 256 + b[4]

\* MessageHeader written: Length, then Type
PutHeader(m) == PutUint32(Uint32(Len(m.Payload))) \o PutUint32(Uint32(m.Type))

Message(type, payload) == [Type |-> type, Payload |-> payload]
NoMessage == Message(0, <<>>)

\* EncodeMessage
EncodeMessage(m) == PutHeader(m) \o m.Payload

\* DecodeMessage: [err, msg]
DecodeHeader(bytes, length, type) ==
  IF Uint32(Len(bytes) - 8) < length THEN [err |-> "bad payload length", msg |-> NoMessage]
  ELSE [err |-> "", msg |-> Message(type, SubSeq(bytes, 9, 8 + length))]

DecodeMessage(bytes) ==
  IF Len(bytes) < 8 THEN [err |-> "message too short", msg |-> NoMessage]
  ELSE DecodeHeader(bytes, GetUint32(SubSeq(bytes, 1, 4)), GetUint32(SubSeq(bytes, 5, 8)))

\* WriteMessage: the stream after the header and the payload are written
WriteMessage(stream, m) == (stream \o PutHeader(m)) \o m.Payload

\* ReadMessage on a stream that ends after its last byte: [err, msg, rest]
ReadPayload(stream, length, type) ==
  IF Len(stream) - 8 < length
  THEN [err |-> "read payload", msg |-> NoMessage, rest |-> <<>>]
  ELSE [err |-> "", msg |-> Message(type, SubSeq(stream, 9, 8 + length)),
        rest |-> SubSeq(stream, 9 + length, Len(stream))]

ReadMessage(stream) ==
  IF Len(stream) < 8 THEN [err |-> "read header", msg |-> NoMessage, rest |-> <<>>]
  ELSE ReadPayload(stream, GetUint32(SubSeq(stream, 1, 4)), GetUint32(SubSeq(stream, 5, 8)))

\* The messages of the model: the four types of the protocol and one that
\* fills all four bytes; payloads empty, one byte, two bytes
MessageTypes == {0, 1, 3, 16909060}
Payloads == {<<>>, <<0>>, <<255, 10>>}
Messages == {Message(t, p) : t \in MessageTypes, p \in Payloads}

(***************************************************************************)
(* CryptoManager: SM4 with padding.  Bytes are numbers 0..255.             *)
(***************************************************************************)
BlockSize == 16
MaxBlocks == 2

\* The block cipher: sm4 Encrypt / Decrypt transform the first BlockSize
\* bytes of src into dst; here a keyed permutation of the blocks and its
\* inverse
blockEncrypt(b) == [i \in 1..BlockSize |-> (b[BlockSize + 1 - i] + i) % 256]
blockDecrypt(c) ==
  [j \in 1..BlockSize |-> (c[BlockSize + 1 - j] + 256 - (BlockSize + 1 - j)) % 256]

\* make([]byte, len(src)) after one Encrypt / Decrypt call: the first block
\* transformed, every later byte still zero
cryptOnce(transformed, n) == transformed \o Repeat(0, n - BlockSize)

\* CryptoManager.EncryptSM4: the padding, then one block.Encrypt
padding(bytes) == BlockSize - (Len(bytes) % BlockSize)
padded(bytes) == bytes \o Repeat(padding(bytes), padding(bytes))

encryptPadded(p) == cryptOnce(blockEncrypt(SubSeq(p, 1, BlockSize)), Len(p))

EncryptSM4(bytes) == encryptPadded(padded(bytes))

\* CryptoManager.DecryptSM4: [panic, plain].  block.Decrypt reads BlockSize
\* bytes of the ciphertext; plaintext[:len(plaintext)-padding] needs
\* padding <= len(plaintext)
unpad(plaintext) ==
  IF plaintext[Len(plaintext)] > Len(plaintext) THEN [panic |-> TRUE, plain |-> <<>>]
  ELSE [panic |-> FALSE,
        plain |-> SubSeq(plaintext, 1, Len(plaintext) - plaintext[Len(plaintext)])]

DecryptSM4(ciphertext) ==
  IF Len(ciphertext) < BlockSize THEN [panic |-> TRUE, plain |-> <<>>]
  ELSE unpad(cryptOnce(blockDecrypt(SubSeq(ciphertext, 1, BlockSize)), Len(ciphertext)))

\* The byte strings of the model: every length up to MaxBlocks blocks and
\* one byte, filled with one letter or with a count
Plaintexts ==
  UNION {{Repeat(65, n), [i \in 1..n |-> i]} : n \in 0..(MaxBlocks * BlockSize + 1)}

NoCall == [op |-> "", args |-> <<>>, ret |-> <<>>]

\* EncryptSM4(data)
Encrypt(bytes) ==
  /\ call' = [op |-> "EncryptSM4", args |-> <<bytes>>, ret |-> EncryptSM4(bytes)]
  /\ UNCHANGED <<storeVars, srvVars, idxVars, wire, conns, lockVars, moreVars>>

\* DecryptSM4 of what EncryptSM4 returned
Decrypt ==
  /\ call.op = "EncryptSM4"
  /\ call' = [op |-> "DecryptSM4", args |-> call.args, ret |-> DecryptSM4(call.ret)]
  /\ UNCHANGED <<storeVars, srvVars, idxVars, wire, conns, lockVars, moreVars>>

(***************************************************************************)
(* The user store at boot                                                  *)
(***************************************************************************)
\* The user file: absent, or its bytes
NoUserFile == [exists |-> FALSE, bytes |-> <<>>]
UserFile(bytes) == [exists |-> TRUE, bytes |-> bytes]

\* The strings of the user file and of meta.sudb; each stands in the file as
\* one byte
UserTexts ==
  <<"root", "bob", "eve", "pw", "123456", "admin", "developer", "readonly", "auditor",
    "active", "locked", "", "app", "tmp", "users", "logs", "json", "text", "table", "graph">>
TextCode(s) == 127 + CHOOSE i \in DOMAIN UserTexts : UserTexts[i] = s

\* The text "username": that json.Marshal writes for the first field
KeyUsername == <<34, 117, 115, 101, 114, 110, 97, 109, 101, 34, 58>>

\* json.Marshal of one entry of the user map: "name":{"username":name,
\* password,[roles],status}
MarshalUser(name, user) ==
  <<34, TextCode(name), 34, 58, 123>> \o KeyUsername
  \o <<TextCode(name), 44, TextCode(user.Password), 44, 91>>
  \o [i \in DOMAIN user.Roles |-> TextCode(user.Roles[i])]
  \o <<93, 44, TextCode(user.Status), 125>>

\* The keys of the user map in the order json.Marshal writes them
SavedNames == <<"bob", "eve", "root">>

RECURSIVE MarshalEntries(_, _)
MarshalEntries(us, names) ==
  IF names = <<>> THEN <<>>
  ELSE IF Head(names) \notin DOMAIN us THEN MarshalEntries(us, Tail(names))
  ELSE LET rest == MarshalEntries(us, Tail(names))
       IN  MarshalUser(Head(names), us[Head(names)])
           \o (IF rest = <<>> THEN <<>> ELSE <<44>> \o rest)

\* json.MarshalIndent(um.users): "{", the entries, "}"
MarshalUsers(us) == <<123>> \o MarshalEntries(us, SavedNames) \o <<125>>

\* The user maps a user file can hold
UserRecords ==
  {[Password |-> p, Roles |-> r, Status |-> s] :
     p \in {"pw", "123456"},
     r \in {<<"admin">>, <<"readonly">>, <<"admin", "developer">>, <<"auditor">>},
     s \in {"active", "locked"}}
UserMaps == UNION {[names -> UserRecords] : names \in SUBSET {"bob", "eve", "root"}}

\* json.Unmarshal into the user map: [ok, users].  The text of a user map
\* gives that map back; every other byte string is an error and leaves the
\* map as it was.
Unmarshal(bytes) ==
  IF /\ Len(bytes) >= 2
     /\ bytes[1] = 123
     /\ bytes[Len(bytes)] = 125
     /\ \E us \in UserMaps : MarshalUsers(us) = bytes
  THEN [ok |-> TRUE, users |-> CHOOSE us \in UserMaps : MarshalUsers(us) = bytes]
  ELSE [ok |-> FALSE, users |-> [u \in {} |-> <<>>]]

\* UserManager.Save: the user file after a save of the map
SaveUsers(us) == UserFile(EncryptSM4(MarshalUsers(us)))

\* NewUserManager's CreateUser("root", "123456", {"admin"}) on the new
\* manager, with its Save
createRoot ==
  [panic |-> FALSE, err |-> "",
   users |-> ("root" :> [Password |-> "123456", Roles |-> <<"admin">>, Status |-> "active"]),
   userRoles |-> AssignRoles([u \in {} |-> <<>>], "root", <<"admin">>),
   saved |-> TRUE]

\* NewUserManager after DecryptSM4
loadUsers(d) ==
  IF d.panic
  THEN [panic |-> TRUE, err |-> "", users |-> [u \in {} |-> <<>>],
        userRoles |-> [u \in {} |-> <<>>], saved |-> FALSE]
  ELSE IF ~Unmarshal(d.plain).ok THEN createRoot
  ELSE [panic |-> FALSE, err |-> "", users |-> Unmarshal(d.plain).users,
        userRoles |-> [u \in {} |-> <<>>], saved |-> FALSE]

\* NewUserManager: [panic, err, users, userRoles, saved]
NewUserManager(file) ==
  IF ~file.exists THEN createRoot
  ELSE IF file.bytes = <<>> THEN createRoot
  ELSE loadUsers(DecryptSM4(file.bytes))

\* The user files of the model: none, byte strings of every length, and
\* what EncryptSM4 makes of byte strings, "{}" among them
UserFiles ==
  {NoUserFile} \cup {UserFile(b) : b \in Plaintexts}
  \cup {UserFile(EncryptSM4(b)) : b \in Plaintexts \cup {<<123, 125>>}}

\* NewUserManager(filename, crypto)
BootUsers(file) ==
  /\ call' = [op |-> "NewUserManager", args |-> <<file>>, ret |-> NewUserManager(file)]
  /\ UNCHANGED <<storeVars, srvVars, idxVars, wire, conns, lockVars, moreVars>>

\* The process ends and starts again: NewUserManager on the user file that
\* the last Save wrote, with a new permission manager
RestartUsers ==
  /\ \E r \in {NewUserManager(SaveUsers(users))} :
       /\ ~r.panic
       /\ users' = r.users
       /\ userRoles' = r.userRoles
       /\ userPermissions' = [u \in {} |-> <<>>]
       /\ call' = [op |-> "NewUserManager", args |-> <<users, userRoles>>, ret |-> r.err]
  /\ UNCHANGED <<clients, collections, last, storeVars, idxVars, wire, conns,
                 lockVars, moreVars>>

NoWire == [stream |-> <<>>, sent |-> <<>>, reads |-> 0, got |-> ReadMessage(<<>>)]

\* DecodeMessage(EncodeMessage(m))
Recode(m) ==
  /\ call' = [op |-> "DecodeMessage", args |-> <<m>>, ret |-> DecodeMessage(EncodeMessage(m))]
  /\ UNCHANGED <<storeVars, srvVars, idxVars, wire, conns, lockVars, moreVars>>

\* WriteMessage(m) on the stream
Write(m) ==
  /\ Len(wire.sent) < MaxFrames
  /\ wire' = [wire EXCEPT !.stream = WriteMessage(wire.stream, m), !.sent = Append(@, m)]
  /\ UNCHANGED <<storeVars, srvVars, idxVars, call, conns, lockVars, moreVars>>

\* ReadMessage on the stream, once bytes are there
Read ==
  /\ wire.stream # <<>>
  /\ \E r \in {ReadMessage(wire.stream)} :
       wire' = [stream |-> r.rest, sent |-> Tail(wire.sent), reads |-> 1 - wire.reads,
                got |-> r]
  /\ UNCHANGED <<storeVars, srvVars, idxVars, call, conns, lockVars, moreVars>>

(***************************************************************************)
(* handleConnection, step by step, on several connections                  *)
(***************************************************************************)
MaxRequests == 2
ConnIds == {1, 2}

\* The frames the clients send
ConnFrames ==
  {<<"Auth", AuthText("root", "123456")>>, <<"Query", QSelect>>,
   <<"Query", QShowCollections>>, <<"Query", QImportNoTarget>>, <<"Other", QSelect>>}

NoConn ==
  [pc |-> "new", client |-> NoClient, req |-> <<>>, resp |-> NoFrame, reads |-> 0,
   writes |-> 0, err |-> ""]

\* Serve: the connection is accepted and its goroutine started
Open(c) ==
  /\ running /\ conns[c].pc = "new"
  /\ conns' = [conns EXCEPT ![c].pc = "read",
                            ![c].client = [open |-> TRUE, auth |-> FALSE, user |-> ""]]
  /\ UNCHANGED <<storeVars, srvVars, idxVars, call, wire, lockVars, moreVars>>

\* handleConnection: ReadMessage returns a frame
ReadFrame(c, f) ==
  /\ running /\ conns[c].pc = "read" /\ conns[c].reads < MaxRequests
  /\ conns' = [conns EXCEPT ![c].pc = "handle", ![c].req = f, ![c].reads = @ + 1]
  /\ UNCHANGED <<storeVars, srvVars, idxVars, call, wire, lockVars, moreVars>>

\* handleConnection: handleMessage, and the Error frame made of its error.
\* A panic is not recovered and ends the process, every goroutine with it.
Handle(c) ==
  /\ running /\ conns[c].pc = "handle" /\ ~saving.active
  /\ \E r \in {handleMessage(conns[c].client, conns[c].req[1], conns[c].req[2])} :
         /\ TotalRecords(r.w.data) <= MaxRecords
         /\ running' = ~r.panic
         /\ conns' = IF r.panic THEN conns
                     ELSE [conns EXCEPT ![c].pc = "write", ![c].client = r.client,
                                        ![c].resp = r.resp]
         /\ data' = IF r.panic THEN EmptyMap ELSE r.w.data
         /\ dirty' = IF r.panic THEN FALSE ELSE r.w.dirty
         /\ collections' = r.w.collections
         /\ dump' = r.w.dump
         /\ exported' = r.w.exported
         /\ disk' = r.w.disk
  /\ UNCHANGED <<clients, users, userRoles, userPermissions, last, saving, saveErr,
                 crashPc, saved, boots, lastImport, idxVars, call, wire, lockVars, moreVars>>

\* handleConnection: WriteMessage of the response
WriteFrame(c) ==
  /\ running /\ conns[c].pc = "write"
  /\ conns' = [conns EXCEPT ![c].pc = "read", ![c].writes = @ + 1]
  /\ UNCHANGED <<storeVars, srvVars, idxVars, call, wire, lockVars, moreVars>>

\* handleConnection: ReadMessage fails, the client has left; the deferred
\* function closes the connection
Close(c) ==
  /\ running /\ conns[c].pc = "read"
  /\ conns' = [conns EXCEPT ![c].pc = "closed", ![c].client = NoClient, ![c].err = "EOF"]
  /\ UNCHANGED <<storeVars, srvVars, idxVars, call, wire, lockVars, moreVars>>

\* handleConnection: the read deadline passes, ReadMessage fails with a
\* timeout; the loop returns and the deferred function closes the connection
ReadTimeout(c) ==
  /\ running /\ conns[c].pc = "read"
  /\ conns' = [conns EXCEPT ![c].pc = "closed", ![c].client = NoClient,
                            ![c].err = "timeout"]
  /\ UNCHANGED <<storeVars, srvVars, idxVars, call, wire, lockVars, moreVars>>

(***************************************************************************)
(* MemoryStore under its lock: the autosave task, Stop and Shutdown,       *)
(* InsertRecord and QueryRecords callers, one goroutine each               *)
(***************************************************************************)
MaxInserts == 2
Inserters == {"ins1", "ins2"}
Savers == {"auto", "stop"}
Goroutines == Inserters \cup Savers \cup {"qry"}
LockDbs == {<<"app", "users">>, <<"app", "logs">>}

\* the record a connection inserts with its i-th call
Digits == <<"1", "2", "3">>
LockRow(g, i) ==
  ("by" :> [k |-> "string", v |-> g]) @@ ("n" :> [k |-> "float64", v |-> Digits[i]])

NoGor == [pc |-> "idle", ret |-> "", at |-> NoKey, rows |-> <<>>, sent |-> <<>>, seen |-> 0]
InitLock ==
  /\ ms = [w |-> "none", readers |-> [g \in Goroutines |-> 0], stopChan |-> "open"]
  /\ gor = [g \in Goroutines |-> NoGor]

\* the variables no step of a goroutine touches
lockRest ==
  <<running, dump, saving, saveErr, crashPc, saved, boots, exported, lastImport, srvVars,
    idxVars, conns, call, wire, moreVars>>

\* A lock whose writer mutex is always free
MutexFreeAlways(m) == TRUE

\* sync.RWMutex: no goroutine is in Lock or holds the write lock, so that
\* Lock can announce itself and RLock can return
MutexFree(m) == m.w = "none"

\* sync.RWMutex.Lock returns once the readers have left
NoReaders(m) == \A g \in Goroutines : m.readers[g] = 0

\* mu.Lock(), first half: the writer is announced, later RLock calls wait
LockAnnounce(m, g) == [m EXCEPT !.w = g]
\* mu.Unlock()
Unlock(m) == [m EXCEPT !.w = "none"]
\* mu.RLock() and mu.RUnlock()
RLock(m, g) == [m EXCEPT !.readers[g] = @ + 1]
RUnlock(m, g) == [m EXCEPT !.readers[g] = @ - 1]

\* g holds the lock exclusively
HoldsLock(g) == ms.w = g /\ NoReaders(ms) /\ gor[g].pc \notin {"ins.wait", "stop.wait"}

\* SaveToDisk, the whole loop without an I/O failure
SaveAll(dk, d0) ==
  [k \in DOMAIN dk \cup DbKeys(d0) |->
     IF k \in DbKeys(d0)
     THEN SaveRenameTmp(SaveWriteTmp(SaveRenameBak(FilesOf(dk, k)), d0[k[1]][k[2]]))
     ELSE dk[k]]

\* InsertRecord is called: mu.Lock()
InsCall(g, k) ==
  /\ gor[g].pc = "idle" /\ Len(gor[g].sent) < MaxInserts
  /\ MutexFree(ms)
  /\ ms' = LockAnnounce(ms, g)
  /\ gor' = [gor EXCEPT ![g].pc = "ins.wait", ![g].at = k]
  /\ UNCHANGED <<data, dirty, disk, lockRest>>

\* InsertRecord: mu.Lock() returns
InsAcquire(g) ==
  /\ gor[g].pc = "ins.wait" /\ NoReaders(ms)
  /\ gor' = [gor EXCEPT ![g].pc = "ins.load"]
  /\ UNCHANGED <<ms, data, dirty, disk, lockRest>>

\* InsertRecord: the containers made when missing, the slice read
InsLoad(g) ==
  /\ gor[g].pc = "ins.load"
  /\ data' = EnsureDb(data, gor[g].at[1], gor[g].at[2])
  /\ gor' = [gor EXCEPT ![g].pc = "ins.store",
                        ![g].rows = Records(data, gor[g].at[1], gor[g].at[2])]
  /\ UNCHANGED <<ms, dirty, disk, lockRest>>

\* InsertRecord: the slice with the record appended stored, dirty set
InsStore(g) ==
  /\ gor[g].pc = "ins.store"
  /\ data' = PutDb(data, gor[g].at[1], gor[g].at[2],
                   Append(gor[g].rows, LockRow(g, Len(gor[g].sent) + 1)))
  /\ dirty' = TRUE
  /\ gor' = [gor EXCEPT ![g].pc = "ins.unlock"]
  /\ UNCHANGED <<ms, disk, lockRest>>

\* InsertRecord returns: the deferred mu.Unlock()
InsReturn(g) ==
  /\ gor[g].pc = "ins.unlock"
  /\ ms' = Unlock(ms)
  /\ gor' = [gor EXCEPT ![g].pc = "idle", ![g].sent = Append(@, gor[g].at), ![g].rows = <<>>,
                        ![g].at = NoKey]
  /\ UNCHANGED <<data, dirty, disk, lockRest>>

\* autoSave: the ticker fires, mu.RLock()
Tick ==
  /\ gor["auto"].pc = "idle" /\ MutexFree(ms)
  /\ ms' = RLock(ms, "auto")
  /\ gor' = [gor EXCEPT !["auto"].pc = "tick.check"]
  /\ UNCHANGED <<data, dirty, disk, lockRest>>

\* autoSave: if ms.dirty, SaveToDisk is called
TickCheck ==
  /\ gor["auto"].pc = "tick.check"
  /\ gor' = IF dirty
            THEN [gor EXCEPT !["auto"].pc = "save.rlock", !["auto"].ret = "tick.clear"]
            ELSE [gor EXCEPT !["auto"].pc = "tick.runlock"]
  /\ UNCHANGED <<ms, data, dirty, disk, lockRest>>

\* autoSave: SaveToDisk returned nil, ms.dirty = false
TickClear ==
  /\ gor["auto"].pc = "tick.clear"
  /\ dirty' = FALSE
  /\ gor' = [gor EXCEPT !["auto"].pc = "tick.runlock"]
  /\ UNCHANGED <<ms, data, disk, lockRest>>

\* autoSave: mu.RUnlock(), back to the select
TickReturn ==
  /\ gor["auto"].pc = "tick.runlock"
  /\ ms' = RUnlock(ms, "auto")
  /\ gor' = [gor EXCEPT !["auto"].pc = "idle", !["auto"].ret = ""]
  /\ UNCHANGED <<data, dirty, disk, lockRest>>

\* autoSave: stopChan is closed, the task returns
AutoExit ==
  /\ gor["auto"].pc = "idle" /\ ms.stopChan = "closed"
  /\ gor' = [gor EXCEPT !["auto"].pc = "exited"]
  /\ UNCHANGED <<ms, data, dirty, disk, lockRest>>

\* SaveToDisk: mu.RLock() returns; the range over ms.data starts
SaveRLock(g) ==
  /\ gor[g].pc = "save.rlock" /\ MutexFree(ms)
  /\ ms' = RLock(ms, g)
  /\ gor' = [gor EXCEPT ![g].pc = "save.body", ![g].seen = TotalRecords(data)]
  /\ UNCHANGED <<data, dirty, disk, lockRest>>

\* SaveToDisk: every database written
SaveBody(g) ==
  /\ gor[g].pc = "save.body"
  /\ disk' = SaveAll(disk, data)
  /\ gor' = [gor EXCEPT ![g].pc = "save.clear"]
  /\ UNCHANGED <<ms, data, dirty, lockRest>>

\* SaveToDisk: ms.dirty = false
SaveClear(g) ==
  /\ gor[g].pc = "save.clear"
  /\ dirty' = FALSE
  /\ gor' = [gor EXCEPT ![g].pc = "save.runlock"]
  /\ UNCHANGED <<ms, data, disk, lockRest>>

\* SaveToDisk returns: the deferred mu.RUnlock()
SaveReturn(g) ==
  /\ gor[g].pc = "save.runlock"
  /\ ms' = RUnlock(ms, g)
  /\ gor' = [gor EXCEPT ![g].pc = gor[g].ret, ![g].ret = ""]
  /\ UNCHANGED <<data, dirty, disk, lockRest>>

\* Engine.Shutdown calls Stop: mu.Lock()
StopCall ==
  /\ gor["stop"].pc = "idle" /\ MutexFree(ms)
  /\ ms' = LockAnnounce(ms, "stop")
  /\ gor' = [gor EXCEPT !["stop"].pc = "stop.wait"]
  /\ UNCHANGED <<data, dirty, disk, lockRest>>

\* Stop: mu.Lock() returns
StopAcquire ==
  /\ gor["stop"].pc = "stop.wait" /\ NoReaders(ms)
  /\ gor' = [gor EXCEPT !["stop"].pc = "stop.check"]
  /\ UNCHANGED <<ms, data, dirty, disk, lockRest>>

\* Stop: if ms.dirty, SaveToDisk is called
StopCheck ==
  /\ gor["stop"].pc = "stop.check"
  /\ gor' = IF dirty
            THEN [gor EXCEPT !["stop"].pc = "save.rlock", !["stop"].ret = "stop.unlock"]
            ELSE [gor EXCEPT !["stop"].pc = "stop.unlock"]
  /\ UNCHANGED <<ms, data, dirty, disk, lockRest>>

\* Stop: mu.Unlock()
StopUnlock ==
  /\ gor["stop"].pc = "stop.unlock"
  /\ ms' = Unlock(ms)
  /\ gor' = [gor EXCEPT !["stop"].pc = "stop.close"]
  /\ UNCHANGED <<data, dirty, disk, lockRest>>

\* Stop: close(stopChan), return; Shutdown goes on to its own SaveToDisk
StopClose ==
  /\ gor["stop"].pc = "stop.close"
  /\ ms' = [ms EXCEPT !.stopChan = "closed"]
  /\ gor' = [gor EXCEPT !["stop"].pc = "save.rlock", !["stop"].ret = "down"]
  /\ UNCHANGED <<data, dirty, disk, lockRest>>

\* QueryRecords is called: mu.RLock()
QueryCall(k) ==
  /\ gor["qry"].pc = "idle" /\ MutexFree(ms)
  /\ ms' = RLock(ms, "qry")
  /\ gor' = [gor EXCEPT !["qry"].pc = "qry.read", !["qry"].at = k, !["qry"].rows = <<>>]
  /\ UNCHANGED <<data, dirty, disk, lockRest>>

\* QueryRecords returns the records: the deferred mu.RUnlock()
QueryReturn ==
  /\ gor["qry"].pc = "qry.read"
  /\ ms' = RUnlock(ms, "qry")
  /\ gor' = [gor EXCEPT !["qry"].pc = "idle",
                        !["qry"].rows = QueryRecords(data, gor["qry"].at[1],
                                                     gor["qry"].at[2], NoFilter)]
  /\ UNCHANGED <<data, dirty, disk, lockRest>>

(***************************************************************************)
(* Databases created by two goroutines                                     *)
(***************************************************************************)
Creators == {"cd1", "cd2"}
NoCreator == [pc |-> "idle", at |-> <<>>, ret |-> ""]

InitCreate == cdb = [g \in Creators |-> NoCreator]

createRest ==
  <<clients, users, userRoles, userPermissions, last, data, dirty, disk, dump, saving,
    saveErr, crashPc, saved, boots, exported, lastImport, idxVars, conns, call, wire, lockVars,
    audit, backups, sd, cmgr>>

\* Engine.CreateDatabase: GetCollection, then Collection.CreateDatabase is
\* entered; no lock is held from here on
CdCall(g, c, d) ==
  /\ running /\ cdb[g].pc = "idle"
  /\ cdb' = [cdb EXCEPT ![g] =
               IF c \in DOMAIN collections
               THEN [pc |-> "check", at |-> <<c, d>>, ret |-> ""]
               ELSE [pc |-> "done", at |-> <<c, d>>, ret |-> "collection not found"]]
  /\ UNCHANGED <<running, collections, createRest>>

\* Collection.CreateDatabase: the existence check and os.MkdirAll
CdCheck(g) ==
  /\ running /\ cdb[g].pc = "check"
  /\ cdb' = [cdb EXCEPT ![g] =
               IF cdb[g].at[2] \in DOMAIN collections[cdb[g].at[1]].Databases
               THEN [@ EXCEPT !.pc = "done", !.ret = "database exists"]
               ELSE [@ EXCEPT !.pc = "put"]]
  /\ UNCHANGED <<running, collections, createRest>>

\* c.Databases[name] = Database{...}: the map write begins
CdPut(g) ==
  /\ running /\ cdb[g].pc = "put"
  /\ cdb' = [cdb EXCEPT ![g].pc = "writing"]
  /\ UNCHANGED <<running, collections, createRest>>

\* the map write ends with the entry in the map
CdPutEnd(g) ==
  /\ running /\ cdb[g].pc = "writing"
  /\ collections' = [collections EXCEPT
                       ![cdb[g].at[1]].Databases = (cdb[g].at[2] :> "json") @@ @]
  /\ cdb' = [cdb EXCEPT ![g].pc = "init"]
  /\ UNCHANGED <<running, createRest>>

\* two goroutines in the map write at once: the runtime may detect it and end
\* the process with "fatal error: concurrent map writes"
CdFatal ==
  /\ running /\ \A g \in Creators : cdb[g].pc = "writing"
  /\ running' = FALSE
  /\ UNCHANGED <<cdb, collections, createRest>>

\* initializeStorage and save went through: return nil
CdReturn(g) ==
  /\ running /\ cdb[g].pc = "init"
  /\ cdb' = [cdb EXCEPT ![g].pc = "done"]
  /\ UNCHANGED <<running, collections, createRest>>

\* the caller takes the result and is free for its next statement
CdNext(g) ==
  /\ running /\ cdb[g].pc = "done"
  /\ cdb' = [cdb EXCEPT ![g] = NoCreator]
  /\ UNCHANGED <<running, collections, createRest>>

(***************************************************************************)
(* The audit logger                                                        *)
(***************************************************************************)
MaxSize == 2
MaxSeconds == 2
MaxBytes == 6
EntrySizes == {1, 2}

\* os.OpenFile(filename, O_CREATE|O_WRONLY|O_APPEND): what the directory
\* holds afterwards
OpenFile(files, name) == IF name \in DOMAIN files THEN files ELSE (name :> 0) @@ files

\* rotateLog: the file named after the second of the clock, curSize = 0
rotateLog(a) ==
  [files |-> OpenFile(a.files, a.now), file |-> a.now, now |-> a.now, curSize |-> 0]

\* Log, the write of n bytes and curSize += n
writeEntry(a, n) ==
  [a EXCEPT !.files[a.file] = @ + n, !.curSize = @ + n]

\* AuditLogger.Log of an entry whose encrypted line has n bytes
LogOp(a, n) ==
  IF a.curSize >= MaxSize THEN writeEntry(rotateLog(a), n) ELSE writeEntry(a, n)

\* the bytes of all audit files together
RECURSIVE SumOver(_, _)
SumOver(files, names) ==
  IF names = {} THEN 0
  ELSE LET x == CHOOSE y \in names : TRUE
       IN  files[x] + SumOver(files, names \ {x})

SumSizes(files) == SumOver(files, DOMAIN files)

\* NewAuditLogger at second 0 of the clock
InitAudit == audit = rotateLog([files |-> <<>>, file |-> 0, now |-> 0, curSize |-> 0])

auditRest == <<storeVars, srvVars, idxVars, conns, call, wire, lockVars, cdb, backups, sd, cmgr>>

\* AuditLogger.Log
Log(n) ==
  /\ SumSizes(audit.files) + n <= MaxBytes
  /\ audit' = LogOp(audit, n)
  /\ UNCHANGED auditRest

\* a second passes
Second ==
  /\ audit.now < MaxSeconds
  /\ audit' = [audit EXCEPT !.now = @ + 1]
  /\ UNCHANGED auditRest

\* the process is started again: NewAuditLogger over the same directory
Restart ==
  /\ audit' = rotateLog(audit)
  /\ UNCHANGED auditRest

(***************************************************************************)
(* Backups made                                                            *)
(***************************************************************************)
MaxBackups == 1

\* what initializeStorage leaves in the directory of a database
StorageEntries(dbType) ==
  CASE dbType = "json" -> {"data", "meta.sudb"}
    [] dbType = "text" -> {"texts"}
    [] dbType = "table" -> {"tables", "indexes"}
    [] dbType = "graph" -> {"nodes", "edges", "indexes"}
    [] OTHER -> {}

\* the data files SaveToDisk left in the directory of a database
DataEntries(files) ==
  {n \in {"data.sudb", "data.sudb.bak", "data.sudb.tmp"} :
     CASE n = "data.sudb" -> files.live.exists
       [] n = "data.sudb.bak" -> files.bak.exists
       [] OTHER -> files.tmp.exists}

\* The paths below the data root that make the tree of collection c: its
\* meta.sudb (Collection.save), the directories of its databases and what
\* is in them, and meta.json where somebody has put one
Tree(cols, dk, c, metaJson) ==
  {<<c, "meta.sudb">>}
  \cup (IF metaJson THEN {<<c, "meta.json">>} ELSE {})
  \cup {<<c, d>> : d \in DOMAIN cols[c].Databases \cup {k[2] : k \in {x \in DOMAIN dk : x[1] = c}}}
  \cup UNION {{<<c, d, e>> : e \in StorageEntries(cols[c].Databases[d])} :
               d \in DOMAIN cols[c].Databases}
  \cup UNION {{<<k[1], k[2], e>> : e \in DataEntries(dk[k])} : k \in {x \in DOMAIN dk : x[1] = c}}

NoArchive == [p \in {} |-> 0]

\* backupMetadata and backupDatabases completed: meta.json added, then every
\* path that filepath.Walk finds below the collection directory
Archived(tree, c) ==
  [p \in tree |-> IF p = <<c, "meta.json">> THEN 2 ELSE 1]

\* BackupManager.BackupCollection: [err, made, archive, manifest]; made says
\* that <id>.tar.gz was created.  fault is a failed write of <id>.json.
BackupCollection(cols, dk, name, metaJson, fault) ==
  IF name \notin DOMAIN cols
  THEN [err |-> "collection not found", made |-> FALSE, archive |-> NoArchive,
        manifest |-> "none"]
  ELSE IF ~metaJson
  THEN [err |-> "open meta.json", made |-> TRUE, archive |-> NoArchive, manifest |-> "none"]
  ELSE IF fault
  THEN [err |-> "write backup info", made |-> TRUE,
        archive |-> Archived(Tree(cols, dk, name, metaJson), name), manifest |-> "none"]
  ELSE [err |-> "", made |-> TRUE,
        archive |-> Archived(Tree(cols, dk, name, metaJson), name), manifest |-> "completed"]

NoBackups == [id \in {} |-> [manifest |-> "none", archive |-> NoArchive]]

InitBackup == backups = NoBackups

\* the id of the next backup of a collection: its name and the time
BackupId(name) == <<name, Cardinality(DOMAIN backups)>>

\* Engine.BackupCollection(name, description)
MakeBackup(name, metaJson, fault) ==
  /\ Cardinality(DOMAIN backups) < MaxBackups
  /\ \E r \in {BackupCollection(collections, disk, name, metaJson, fault)} :
       /\ backups' = IF r.made
                     THEN (BackupId(name) :> [manifest |-> r.manifest, archive |-> r.archive])
                          @@ backups
                     ELSE backups
       /\ call' = [op |-> "BackupCollection", args |-> <<name, metaJson, BackupId(name)>>,
                   ret |-> r.err]
  /\ UNCHANGED <<storeVars, srvVars, idxVars, wire, conns, lockVars, cdb, audit, sd, cmgr>>

(***************************************************************************)
(* Collections written to meta.sudb and read back                          *)
(***************************************************************************)
\* The texts "name":, "owner": and "databases": of the Collection struct
KeyName == <<34, 110, 97, 109, 101, 34, 58>>
KeyOwner == <<34, 111, 119, 110, 101, 114, 34, 58>>
KeyDatabases == <<34, 100, 97, 116, 97, 98, 97, 115, 101, 115, 34, 58>>

\* The keys of the Databases map in the order json.Marshal writes them
SavedDatabases == <<"logs", "users">>

RECURSIVE MarshalDatabases(_, _)
MarshalDatabases(dbs, names) ==
  IF names = <<>> THEN <<>>
  ELSE IF Head(names) \notin DOMAIN dbs THEN MarshalDatabases(dbs, Tail(names))
  ELSE LET rest == MarshalDatabases(dbs, Tail(names))
       IN  <<34, TextCode(Head(names)), 34, 58, TextCode(dbs[Head(names)])>>
           \o (IF rest = <<>> THEN <<>> ELSE <<44>> \o rest)

\* json.MarshalIndent(c) of a Collection: name, owner, databases
MarshalCollection(name, coll) ==
  <<123>> \o KeyName \o <<TextCode(name), 44>>
  \o KeyOwner \o <<TextCode(coll.Owner), 44>>
  \o KeyDatabases \o <<123>> \o MarshalDatabases(coll.Databases, SavedDatabases)
  \o <<125, 125>>

\* The JSON text {"name":name}, which has no other field
NameOnly(name) == <<123>> \o KeyName \o <<TextCode(name), 125>>

\* The collections a meta.sudb can hold
MetaNames == {"app", "tmp"}
MetaCollections ==
  {[Owner |-> o, Databases |-> dbs] :
     o \in {"root"},
     dbs \in UNION {[ds -> StorageTypes] : ds \in SUBSET {"logs", "users"}}}

\* json.Unmarshal(data, &collection): [ok, name, coll, hasMap].  A field
\* the text does not name keeps its zero value: no owner, and a nil
\* Databases map.
UnmarshalCollection(bytes) ==
  IF \E n \in MetaNames, c \in MetaCollections : MarshalCollection(n, c) = bytes
  THEN LET found == CHOOSE x \in MetaNames \X MetaCollections :
                      MarshalCollection(x[1], x[2]) = bytes
       IN  [ok |-> TRUE, name |-> found[1], coll |-> found[2], hasMap |-> TRUE]
  ELSE IF \E n \in MetaNames : NameOnly(n) = bytes
  THEN [ok |-> TRUE, name |-> CHOOSE n \in MetaNames : NameOnly(n) = bytes,
        coll |-> [Owner |-> "", Databases |-> EmptyMap], hasMap |-> FALSE]
  ELSE [ok |-> FALSE, name |-> "", coll |-> [Owner |-> "", Databases |-> EmptyMap],
        hasMap |-> FALSE]

\* Collection.save: the bytes written to meta.sudb
save(name, coll) == EncryptSM4(MarshalCollection(name, coll))

\* what loadCollections makes of one meta.sudb: skipped unless it decrypts
\* and parses
loadOne(bytes) ==
  IF DecryptSM4(bytes).panic
  THEN [ok |-> FALSE, name |-> "", coll |-> [Owner |-> "", Databases |-> EmptyMap],
        hasMap |-> FALSE]
  ELSE UnmarshalCollection(DecryptSM4(bytes).plain)

\* CollectionManager.loadCollections: [collections, loaded].  The map is
\* made anew; every directory whose meta.sudb decrypts and parses gives a
\* collection under the name in the file, with its base path and nothing
\* else set.
loadCollections(metas) ==
  LET read == {c \in DOMAIN metas : loadOne(metas[c]).ok}
      names == {loadOne(metas[c]).name : c \in read}
      dirOf(n) == CHOOSE c \in read : loadOne(metas[c]).name = n
  IN  [collections |-> [n \in names |-> loadOne(metas[dirOf(n)]).coll],
       loaded |-> [n \in names |-> loadOne(metas[dirOf(n)]).hasMap]]

\* Engine.CreateDatabase on the collections of the manager:
\* [err, collections, disk, metas].  A collection that loadCollections put
\* into the map has no crypto manager, and no Databases map where the file
\* named none: the write into the map, the EncryptSM4 of initializeStorage
\* (json) and the one of save (every type) panic there.
CreateDatabaseOn(cols, loaded, dk, metas, c, d, dbType) ==
  IF c \notin DOMAIN cols \/ d \in DOMAIN cols[c].Databases
     \/ (dbType \notin StorageTypes /\ (c \notin DOMAIN loaded \/ loaded[c]))
  THEN [err |-> CreateDatabase(cols, dk, c, d, dbType).err,
        collections |-> cols,
        disk |-> CreateDatabase(cols, dk, c, d, dbType).disk,
        metas |-> metas]
  ELSE IF c \in DOMAIN loaded
  THEN [err |-> "panic", collections |-> cols, disk |-> dk, metas |-> metas]
  ELSE [err |-> "",
        collections |-> CreateDatabase(cols, dk, c, d, dbType).collections,
        disk |-> dk,
        metas |-> (c :> save(c, CreateDatabase(cols, dk, c, d, dbType).collections[c]))
                  @@ metas]

NoManager == [metas |-> [c \in {} |-> <<>>], loaded |-> [c \in {} |-> FALSE]]

InitManager == cmgr = NoManager

managerRest ==
  <<clients, users, userRoles, userPermissions, last, data, dirty, dump, saving,
    saveErr, crashPc, saved, boots, exported, lastImport, idxVars, conns, wire, lockVars,
    cdb, audit, backups, sd>>

\* CollectionManager.CreateCollection(name, owner), with its save
CmCreateCollection(c, owner) ==
  /\ running
  /\ \E r \in {CreateCollection(collections, c, owner)} :
       /\ collections' = r.collections
       /\ cmgr' = [metas |-> IF r.err = "" THEN (c :> save(c, r.collections[c])) @@ cmgr.metas
                             ELSE cmgr.metas,
                   loaded |-> cmgr.loaded]
       /\ call' = [op |-> "CreateCollection", args |-> <<c, owner>>, ret |-> r.err]
  /\ UNCHANGED <<running, disk, managerRest>>

\* Engine.CreateDatabase(collection, name, dbType); a panic ends the process
CmCreateDatabase(c, d, dbType) ==
  /\ running
  /\ \E r \in {CreateDatabaseOn(collections, cmgr.loaded, disk, cmgr.metas, c, d, dbType)} :
       /\ collections' = r.collections
       /\ disk' = r.disk
       /\ cmgr' = [metas |-> r.metas, loaded |-> cmgr.loaded]
       /\ running' = (r.err # "panic")
       /\ call' = [op |-> "CreateDatabase", args |-> <<c, d, dbType>>, ret |-> r.err]
  /\ UNCHANGED managerRest

\* The meta.sudb files an archive can hold for collection c: the one
\* Collection.save wrote, and a file of one block with the name alone
ArchiveMetas(c) ==
  {save(c, [Owner |-> "root", Databases |-> EmptyMap]), EncryptSM4(NameOnly(c))}

\* RestoreCollection of an archive that holds the directory of c with the
\* given meta.sudb and no data files: the collection deleted, the directory
\* moved into the data root, loadCollections
CmRestore(c, meta) ==
  /\ running
  /\ \E del \in {DeleteCollection(collections, disk, c)} :
       IF del.err # ""
       THEN /\ call' = [op |-> "RestoreCollection", args |-> <<c, meta>>, ret |-> del.err]
            /\ UNCHANGED <<collections, disk, cmgr>>
       ELSE \E r \in {loadCollections((c :> meta) @@ cmgr.metas)} :
              /\ collections' = r.collections
              /\ disk' = del.disk
              /\ cmgr' = [metas |-> (c :> meta) @@ cmgr.metas, loaded |-> r.loaded]
              /\ call' = [op |-> "RestoreCollection", args |-> <<c, meta>>, ret |-> ""]
  /\ UNCHANGED <<running, managerRest>>

\* The process starts again: NewCollectionManager with its loadCollections
CmBoot ==
  /\ \E r \in {loadCollections(cmgr.metas)} :
       /\ collections' = r.collections
       /\ cmgr' = [metas |-> cmgr.metas, loaded |-> r.loaded]
  /\ running' = TRUE
  /\ call' = [op |-> "NewCollectionManager", args |-> <<>>, ret |-> ""]
  /\ UNCHANGED <<disk, managerRest>>

(***************************************************************************)
(* The shutdown sequence: main, Serve and the connection workers           *)
(***************************************************************************)
Workers == {1, 2}

InitShutdown ==
  sd = [ctx |-> "live", serve |-> "select", main |-> "serving",
        workers |-> [w \in Workers |-> "none"], answered |-> 0]

shutdownRest ==
  <<running, dump, saving, saveErr, crashPc, saved, boots, exported, lastImport, srvVars,
    idxVars, conns, call, wire, lockVars, cdb, audit, backups, cmgr>>

\* the process has not ended
Alive == running /\ sd.main # "exited"

\* Serve: the select at the head of the loop; with the context cancelled
\* Serve returns nil into its deferred wg.Wait()
ServeSelect ==
  /\ Alive /\ sd.serve = "select"
  /\ sd' = [sd EXCEPT !.serve = IF sd.ctx = "cancelled" THEN "wait" ELSE "accept"]
  /\ UNCHANGED <<data, dirty, disk, shutdownRest>>

\* Serve: listener.Accept() returns a connection that a client has made; the
\* client is registered and its worker started
ServeAccept(w) ==
  /\ Alive /\ sd.serve = "accept" /\ sd.workers[w] = "none"
  /\ sd' = [sd EXCEPT !.serve = "select", !.workers[w] = "select"]
  /\ UNCHANGED <<data, dirty, disk, shutdownRest>>

\* Serve: the deferred wg.Wait() returns when every worker has returned
ServeWait ==
  /\ Alive /\ sd.serve = "wait"
  /\ \A w \in Workers : sd.workers[w] \in {"none", "returned"}
  /\ sd' = [sd EXCEPT !.serve = "returned"]
  /\ UNCHANGED <<data, dirty, disk, shutdownRest>>

\* handleConnection: the select at the head of the loop
WorkerSelect(w) ==
  /\ Alive /\ sd.workers[w] = "select"
  /\ sd' = [sd EXCEPT !.workers[w] = IF sd.ctx = "cancelled" THEN "returned" ELSE "read"]
  /\ UNCHANGED <<data, dirty, disk, shutdownRest>>

\* handleConnection: ReadMessage returns a frame that the client has sent
WorkerRead(w) ==
  /\ Alive /\ sd.workers[w] = "read"
  /\ sd' = [sd EXCEPT !.workers[w] = "handle"]
  /\ UNCHANGED <<data, dirty, disk, shutdownRest>>

\* handleConnection: the read deadline elapses, or the client is gone
WorkerTimeout(w) ==
  /\ Alive /\ sd.workers[w] = "read"
  /\ sd' = [sd EXCEPT !.workers[w] = "returned"]
  /\ UNCHANGED <<data, dirty, disk, shutdownRest>>

\* handleMessage of an INSERT: MemStore.InsertRecord
WorkerHandle(w) ==
  /\ Alive /\ sd.workers[w] = "handle"
  /\ TotalRecords(data) < MaxRecords
  /\ data' = InsertRecordOp(data, "app", "users", Bob)
  /\ dirty' = TRUE
  /\ sd' = [sd EXCEPT !.workers[w] = "write"]
  /\ UNCHANGED <<disk, shutdownRest>>

\* handleConnection: WriteMessage of the Result frame
WorkerWrite(w) ==
  /\ Alive /\ sd.workers[w] = "write"
  /\ sd' = [sd EXCEPT !.workers[w] = "select", !.answered = @ + 1]
  /\ UNCHANGED <<data, dirty, disk, shutdownRest>>

\* main: the signal arrives, cancel()
Signal ==
  /\ Alive /\ sd.main = "serving"
  /\ sd' = [sd EXCEPT !.ctx = "cancelled", !.main = "waiting"]
  /\ UNCHANGED <<data, dirty, disk, shutdownRest>>

\* main: wg.Wait() returned because Serve has returned, done is closed
MainDone ==
  /\ Alive /\ sd.main = "waiting" /\ sd.serve = "returned"
  /\ sd' = [sd EXCEPT !.main = "shutdown"]
  /\ UNCHANGED <<data, dirty, disk, shutdownRest>>

\* Serve or a worker it waits for sits in a call that takes time: Accept, or
\* a read with its deadline of 30 seconds
Blocked ==
  \/ sd.serve = "accept"
  \/ sd.serve = "wait" /\ \E w \in Workers : sd.workers[w] = "read"

\* main: time.After(5 * time.Second) fires first
MainTimeout ==
  /\ Alive /\ sd.main = "waiting" /\ Blocked
  /\ sd' = [sd EXCEPT !.main = "shutdown"]
  /\ UNCHANGED <<data, dirty, disk, shutdownRest>>

\* Server.Shutdown: MemStore.SaveToDisk()
ShutdownSave ==
  /\ Alive /\ sd.main = "shutdown"
  /\ disk' = SaveAll(disk, data)
  /\ dirty' = FALSE
  /\ sd' = [sd EXCEPT !.main = "saved"]
  /\ UNCHANGED <<data, shutdownRest>>

\* Server.Shutdown: the audit record, the closes, return
ShutdownReturn ==
  /\ Alive /\ sd.main = "saved"
  /\ sd' = [sd EXCEPT !.main = "returned"]
  /\ UNCHANGED <<data, dirty, disk, shutdownRest>>

\* main returns: the process and all its goroutines end
Exit ==
  /\ Alive /\ sd.main = "returned"
  /\ sd' = [sd EXCEPT !.main = "exited"]
  /\ UNCHANGED <<data, dirty, disk, shutdownRest>>

Init ==
  /\ InitStore /\ InitServer /\ InitIndex /\ InitLock /\ InitCreate /\ InitAudit /\ InitBackup
  /\ InitShutdown /\ InitManager
  /\ conns = [c \in ConnIds |-> NoConn] /\ call = NoCall /\ wire = NoWire

\* Messages encoded, written and read back
NextFrame ==
  \/ \E m \in Messages : Recode(m)
  \/ \E m \in Messages : Write(m)
  \/ Read

SpecFrame == Init /\ [][NextFrame]_vars

\* Roles assigned and rules granted
NextRbac ==
  \/ \E u \in RbacUsers, roleName \in RbacRoles : AssignRole(u, roleName)
  \/ \E u \in RbacUsers, rule \in RbacRules : GrantPermission(u, rule)

SpecRbac == Init /\ [][NextRbac]_vars

\* The goroutines of the memory store, interleaved
NextLock ==
  \/ \E g \in Inserters, k \in LockDbs : InsCall(g, k)
  \/ \E g \in Inserters : InsAcquire(g)
  \/ \E g \in Inserters : InsLoad(g)
  \/ \E g \in Inserters : InsStore(g)
  \/ \E g \in Inserters : InsReturn(g)
  \/ Tick
  \/ TickCheck
  \/ TickClear
  \/ TickReturn
  \/ AutoExit
  \/ \E g \in Savers : SaveRLock(g)
  \/ \E g \in Savers : SaveBody(g)
  \/ \E g \in Savers : SaveClear(g)
  \/ \E g \in Savers : SaveReturn(g)
  \/ StopCall
  \/ StopAcquire
  \/ StopCheck
  \/ StopUnlock
  \/ StopClose
  \/ \E k \in LockDbs : QueryCall(k)
  \/ QueryReturn

SpecLock == Init /\ [][NextLock]_vars

\* The server serves until the signal and then shuts down
NextShutdown ==
  \/ ServeSelect
  \/ \E w \in Workers : ServeAccept(w)
  \/ ServeWait
  \/ \E w \in Workers : WorkerSelect(w)
  \/ \E w \in Workers : WorkerRead(w)
  \/ \E w \in Workers : WorkerTimeout(w)
  \/ \E w \in Workers : WorkerHandle(w)
  \/ \E w \in Workers : WorkerWrite(w)
  \/ Signal
  \/ MainDone
  \/ MainTimeout
  \/ ShutdownSave
  \/ ShutdownReturn
  \/ Exit

\* Every step of the program that can be taken is taken in the end; what
\* clients do (connect, send a frame), the signal and the race of the
\* 5-second timer are not forced
SpecShutdown ==
  /\ Init /\ [][NextShutdown]_vars
  /\ WF_vars(ServeSelect) /\ WF_vars(ServeWait)
  /\ \A w \in Workers :
       /\ WF_vars(WorkerSelect(w)) /\ WF_vars(WorkerTimeout(w))
       /\ WF_vars(WorkerHandle(w)) /\ WF_vars(WorkerWrite(w))
  /\ WF_vars(MainDone) /\ WF_vars(ShutdownSave) /\ WF_vars(ShutdownReturn) /\ WF_vars(Exit)

\* Collections made, filled, saved and backed up
NextBackup ==
  \/ \E c \in {"app"} : NewCollection(c, "root")
  \/ \E d \in {"users", "logs"} : NewDatabase("app", d, "json")
  \/ InsertRecord("app", "users", Bob)
  \/ SaveBegin
  \/ SaveNext(<<"app", "users">>)
  \/ SaveWrite(FALSE)
  \/ SaveRename(FALSE)
  \/ SaveEnd
  \/ \E name \in {"app", "tmp"}, metaJson \in BOOLEAN, fault \in BOOLEAN :
       MakeBackup(name, metaJson, fault)

SpecBackup == Init /\ [][NextBackup]_vars

\* Audit records written while the clock goes on
NextAudit ==
  \/ \E n \in EntrySizes : Log(n)
  \/ Second
  \/ Restart

SpecAudit == Init /\ [][NextAudit]_vars

\* Two connections create databases in the collection app
NextCreate ==
  \/ NewCollection("app", "root")
  \/ \E g \in Creators, c \in {"app", "tmp"}, d \in {"users", "logs"} : CdCall(g, c, d)
  \/ \E g \in Creators : CdCheck(g)
  \/ \E g \in Creators : CdPut(g)
  \/ \E g \in Creators : CdPutEnd(g)
  \/ CdFatal
  \/ \E g \in Creators : CdReturn(g)
  \/ \E g \in Creators : CdNext(g)

SpecCreate == Init /\ [][NextCreate]_vars

\* A database filled and queried
NextQuery ==
  \/ \E rec \in QueryRows : Fill(rec)
  \/ \E k \in {<<"app", "users">>, <<"app", "logs">>, <<"tmp", "users">>}, filter \in QueryFilters :
       Query(k[1], k[2], filter)

SpecQuery == Init /\ [][NextQuery]_vars

\* Collections made, filled, saved and restored from backups
NextRestore ==
  \/ \E c \in {"app", "tmp"} : NewCollection(c, "root")
  \/ \E c \in {"app", "tmp"}, d \in {"users", "logs"} : NewDatabase(c, d, "json")
  \/ \E c \in {"app", "tmp"} : InsertRecord(c, "users", Bob)
  \/ SaveBegin
  \/ \E k \in {"app", "tmp"} \X {"users"} : SaveNext(k)
  \/ SaveWrite(FALSE)
  \/ SaveRename(FALSE)
  \/ SaveEnd
  \/ \E b \in Backups, fault \in Faults : Restore(b, fault)

SpecRestore == Init /\ [][NextRestore]_vars

\* Connections served frame by frame, interleaved
NextConn ==
  \/ \E c \in ConnIds : Open(c)
  \/ \E c \in ConnIds, f \in ConnFrames : ReadFrame(c, f)
  \/ \E c \in ConnIds : Handle(c)
  \/ \E c \in ConnIds : WriteFrame(c)
  \/ \E c \in ConnIds : Close(c)
  \/ \E c \in ConnIds : ReadTimeout(c)

SpecConn == Init /\ [][NextConn]_vars

\* Collections and databases created
NextColl ==
  \/ \E c \in QuotaColls : NewCollection(c, "root")
  \/ \E c \in QuotaColls, d \in QuotaDbs, dbType \in QuotaTypes : NewDatabase(c, d, dbType)

SpecColl == Init /\ [][NextColl]_vars

\* Users created, locked, unlocked, validated and authenticated
NextUsers ==
  \/ \E c \in Conns : Accept(c)
  \/ \E c \in Conns : Disconnect(c)
  \/ \E c \in Conns, u \in UmUsers, p \in UmPasswords : Frame(c, "Auth", AuthText(u, p))
  \/ \E u \in UmUsers, p \in UmPasswords, roles \in UmRoles : CreateUser(u, p, roles)
  \/ \E u \in UmUsers : LockUser(u)
  \/ \E u \in UmUsers : UnlockUser(u)
  \/ \E u \in UmUsers, p \in UmPasswords : Validate(u, p)

SpecUsers == Init /\ [][NextUsers]_vars

\* Users created with and without success, and validated
NextNewUser ==
  \/ \E u \in UmUsers, p \in UmPasswords, roles \in UmRoles, saveFails \in BOOLEAN :
       NewUser(u, p, roles, saveFails)
  \/ \E u \in UmUsers : LockUser(u)
  \/ \E u \in UmUsers : UnlockUser(u)
  \/ \E u \in UmUsers, p \in UmPasswords : Validate(u, p)

SpecNewUser == Init /\ [][NextNewUser]_vars

\* Records inserted and saved, and databases created over them
NextRecreate ==
  \/ NewCollection("app", "root")
  \/ \E d \in {"users", "logs"}, dbType \in QuotaTypes : NewDatabase("app", d, dbType)
  \/ \E rec \in {Alice, Bob} : InsertRecord("app", "users", rec)
  \/ SaveBegin
  \/ SaveNext(<<"app", "users">>)
  \/ SaveWrite(FALSE)
  \/ SaveRename(FALSE)
  \/ SaveEnd

SpecRecreate == Init /\ [][NextRecreate]_vars

\* Collections made, restored and loaded, and databases created in them
NextManager ==
  \/ \E c \in MetaNames : CmCreateCollection(c, "root")
  \/ \E c \in MetaNames, d \in {"users", "logs"}, dbType \in QuotaTypes :
       CmCreateDatabase(c, d, dbType)
  \/ \E c \in MetaNames : \E meta \in ArchiveMetas(c) : CmRestore(c, meta)
  \/ CmBoot

SpecManager == Init /\ [][NextManager]_vars

\* Users created and saved, and the process restarted
RestartNames == {"bob", "eve"}
RestartRoles == {<<"readonly">>, <<"admin", "developer">>}
NextRestart ==
  \/ \E u \in RestartNames, p \in UmPasswords, roles \in RestartRoles :
       NewUser(u, p, roles, FALSE)
  \/ \E u \in RestartNames, p \in UmPasswords : Validate(u, p)
  \/ RestartUsers

SpecRestart == Init /\ [][NextRestart]_vars

\* Rules matched against requests
NextMatch ==
  \E p1, p2 \in MatchPerms, t1, t2 \in MatchTypes, n1 \in RuleNames, n2 \in ResNames :
    Match(Rule(p1, t1, n1), p2, Resource(t2, n2))

SpecMatch == Init /\ [][NextMatch]_vars

\* Byte strings encrypted and decrypted
NextCrypto ==
  \/ \E bytes \in Plaintexts : Encrypt(bytes)
  \/ Decrypt
  \/ \E file \in UserFiles : BootUsers(file)

SpecCrypto == Init /\ [][NextCrypto]_vars

\* Inserts, snapshots, crashes and restarts
NextStore ==
  \/ \E c \in SnapColls, d \in SnapDbs : \E rec \in SnapRows(d) : InsertRecord(c, d, rec)
  \/ SaveBegin
  \/ \E k \in SnapColls \X SnapDbs : SaveNext(k)
  \/ \E fail \in BOOLEAN : SaveWrite(fail)
  \/ \E fail \in BOOLEAN : SaveRename(fail)
  \/ SaveEnd
  \/ Crash
  \/ Boot

SpecStore == Init /\ [][NextStore]_vars

\* Inserts, exports and imports
NextDump ==
  \/ \E c \in CollNames, d \in DbNames, rec \in Rows : InsertRecord(c, d, rec)
  \/ \E c \in CollNames, d \in DbNames : ExportDatabase(c, d)
  \/ \E target \in TargetNames : ImportFromFile(target)

SpecDump == Init /\ [][NextDump]_vars

\* The server: connections, frames and user management
Next ==
  \/ \E c \in Conns : Accept(c)
  \/ \E c \in Conns : Disconnect(c)
  \/ \E c \in Conns, f \in Frames : Frame(c, f[1], f[2])
  \/ \E u \in NewUsers, roles \in NewRoles : CreateUser(u, "pw", roles)
  \/ \E u \in NewUsers : LockUser(u)
  \/ \E u \in NewUsers : UnlockUser(u)
  \/ \E u \in NewUsers : GrantPermission(u, Rule("SELECT", "DATABASE", AnyName))

Spec == Init /\ [][Next]_vars

\* The index: additions and removals
NextIndex ==
  \/ \E key \in IndexKeys, rowID \in RowIds : Add(key, rowID)
  \/ \E key \in IndexKeys, rowID \in RowIds : Remove(key, rowID)

SpecIndex == Init /\ [][NextIndex]_vars

(***************************************************************************)
(* Snapshots: claims C6 and C7, checked under SpecStore                    *)
(***************************************************************************)
BootStep == ~running /\ running'

\* C6: snapshot atomicity.  When the process died inside SaveToDisk after
\* data.sudb of a database was renamed to data.sudb.bak and before
\* data.sudb.tmp was renamed to data.sudb, the next boot loads the records
\* of data.sudb.bak for that database.
C6_BakLoadedAfterCrashInWindow ==
  [][(BootStep /\ crashPc.pc \in {"renamed", "written"}
        /\ FilesOf(disk, crashPc.key).bak.exists)
     => /\ HasDb(data', crashPc.key[1], crashPc.key[2])
        /\ data'[crashPc.key[1]][crashPc.key[2]]
             = UnmarshalRows(disk[crashPc.key].bak.text).rows]_vars

\* C7: save/load round trip.  A restart that follows a SaveToDisk which ended
\* without I/O failure (the process stopped outside SaveToDisk) loads, for
\* every database that held records at the save, the record sequence that
\* was in memory at the save.
C7_SaveLoadRoundTrip ==
  [][(BootStep /\ crashPc.pc = "idle" /\ saved.valid)
     => \A k \in DbKeys(saved.data) :
          Len(saved.data[k[1]][k[2]]) > 0
            => /\ HasDb(data', k[1], k[2])
               /\ data'[k[1]][k[2]] = saved.data[k[1]][k[2]]]_vars

\* C7 witness: the store was restarted after a clean save and holds the two
\* saved records of app.users, a number among their values
C7_Witness ==
  /\ running /\ boots >= 1 /\ crashPc.pc = "idle" /\ saved.valid /\ ~dirty
  /\ saved.data = data
  /\ HasDb(data, "app", "users") /\ data["app"]["users"] = <<Alice, Bob>>

(***************************************************************************)
(* Dumps: claims C9 and C10, checked under SpecDump                        *)
(***************************************************************************)
ImportStep == lastImport'.seq # lastImport.seq

\* C9: import/export isomorphism.  ExportDatabase(c, d) followed by
\* ImportFromFile(dump, c) on the same store leaves c.d with the record
\* multiset d had at the export.
C9_ExportImportSameStore ==
  [][(ImportStep /\ dump.exists /\ lastImport'.target = exported.c
        /\ Records(data, exported.c, exported.d) = exported.rows)
     => /\ lastImport'.err = ""
        /\ SameBag(Records(data', exported.c, exported.d), exported.rows)]_vars

\* C10: import retargeting.  ImportFromFile(dump, T) into a T without the
\* dump's database leaves T.<db> with the record multiset of the exported
\* database, whatever collection the dump names, and creates or changes no
\* collection other than T.
C10_ImportRetargets ==
  [][(ImportStep /\ dump.exists /\ ~HasDb(data, lastImport'.target, exported.d))
     => /\ lastImport'.err = ""
        /\ SameBag(Records(data', lastImport'.target, exported.d), exported.rows)
        /\ \A c \in (DOMAIN data \cup DOMAIN data') \ {lastImport'.target} :
             c \in DOMAIN data /\ c \in DOMAIN data' /\ data'[c] = data[c]]_vars

(***************************************************************************)
(* Sessions and statements: claims C1 to C5, checked under Spec            *)
(***************************************************************************)
FrameStep == last'.seq # last.seq

\* the session on which the frame of this step arrived, before the step
Session == clients[last'.conn]

StatementsUntouched ==
  /\ running'
  /\ UNCHANGED <<data, dirty, collections, disk, dump>>

\* C1: on an unauthenticated connection every frame that is not an Auth
\* frame is answered with the Error "need authentication", runs no statement
\* (memory store, collection manager and files unchanged) and leaves the
\* session open and unauthenticated; an Auth frame with valid credentials on
\* such a session is answered with a Result and authenticates it.
C1_UnauthenticatedBlock ==
  [][FrameStep /\ ~Session.auth
     => /\ last'.type # "Auth"
           => /\ last'.resp = ErrorFrame(ErrNeedAuth)
              /\ StatementsUntouched
              /\ clients' = clients
              /\ clients'[last'.conn].open /\ ~clients'[last'.conn].auth
        /\ (last'.type = "Auth" /\ Credentials(last'.payload).ok
              /\ ValidateUser(users, Credentials(last'.payload).username,
                              Credentials(last'.payload).password))
           => /\ last'.resp = ResultFrame(MsgAuthOk, <<>>)
              /\ clients'[last'.conn].open /\ clients'[last'.conn].auth]_vars

\* C1 witness: a Query frame was turned away on a session that is still open
\* and unauthenticated, while the store holds a record and a collection
\* exists (made over an earlier session)
C1_Witness ==
  /\ last.type = "Query" /\ last.resp = ErrorFrame(ErrNeedAuth)
  /\ clients[last.conn].open /\ ~clients[last.conn].auth
  /\ TotalRecords(data) > 0 /\ DOMAIN collections # {}

\* C2: an Auth frame whose credentials satisfy ValidateUser authenticates the
\* session as that user and is answered with the Result "authenticated"; an
\* Auth frame that fails (bad JSON or ValidateUser false) is answered with an
\* Error and leaves the session as it was, authenticated or not.
C2_AuthTransition ==
  [][FrameStep /\ last'.type = "Auth"
     => LET cred == Credentials(last'.payload)
        IN  /\ running'
            /\ IF cred.ok /\ ValidateUser(users, cred.username, cred.password)
               THEN /\ last'.resp = ResultFrame(MsgAuthOk, <<>>)
                    /\ clients'[last'.conn] =
                         [open |-> TRUE, auth |-> TRUE, user |-> cred.username]
               ELSE /\ last'.resp.type = "Error"
                    /\ clients' = clients]_vars

\* C2 witness: a session authenticated as root has just failed an Auth frame
\* that names bob, and is still root's
C2_Witness ==
  /\ last.type = "Auth" /\ last.resp = ErrorFrame(ErrAuthFailed)
  /\ Credentials(last.payload).username = "bob"
  /\ clients[last.conn].auth /\ clients[last.conn].user = "root"

C4_ReadonlyRole ==
  [][(FrameStep /\ last'.type = "Query" /\ Session.auth
        /\ Session.user \in DOMAIN users /\ Session.user # "root"
        /\ users[Session.user].Roles = <<"readonly">>
        /\ users[Session.user].Status = "active")
     => /\ last'.payload = QCreateCollection => last'.resp = ErrorFrame(ErrDenied)
        /\ (last'.payload = QSelect /\ "app" \in DOMAIN collections
              /\ "users" \in DOMAIN collections["app"].Databases)
           => last'.resp.type = "Result"]_vars

\* C5: every Query frame on an authenticated session is answered with one
\* Result or Error frame, and the worker and the process live on with the
\* session as it was; this holds for IMPORT without a target collection and
\* for UPDATE without a WHERE clause.
C5_QueryNeverEndsWorker ==
  [][(FrameStep /\ last'.type = "Query" /\ Session.auth)
     => /\ running'
        /\ last'.resp.type \in {"Result", "Error"}
        /\ clients'[last'.conn] = Session]_vars

\* C11: audit completeness on success.  Every Auth frame that authenticates
\* and every Query frame answered with a Result, whatever the statement type,
\* appends exactly one record to the audit log.
C11_AuditOnSuccess ==
  [][(FrameStep /\ last'.type \in {"Auth", "Query"} /\ last'.resp.type = "Result")
     => Len(last'.log) = 1]_vars

\* C12: audit completeness on rejection.  Every Query that parses and is then
\* answered with an Error (permission denied or an execution error) appends
\* exactly one audit record, whose status is FAILED.
C12_AuditOnRejection ==
  [][(FrameStep /\ last'.type = "Query" /\ Session.auth
        /\ ~Parse(last'.payload).panic /\ Parse(last'.payload).err = ""
        /\ last'.resp.type = "Error")
     => Len(last'.log) = 1 /\ last'.log[1].Status = "FAILED"]_vars

(***************************************************************************)
(* The frame codec: claim C13, checked under SpecFrame                     *)
(***************************************************************************)
\* C13: frame round trip.  DecodeMessage(EncodeMessage(m)) is m for every
\* message m, and ReadMessage on the bytes of WriteMessage returns the oldest
\* unread message and takes exactly 8 + len(payload) bytes off the stream, so
\* that frames written back to back are read one by one in order.
C13_FrameRoundTrip ==
  [][/\ call' # call
        => call'.ret = [err |-> "", msg |-> call'.args[1]]
     /\ wire'.reads # wire.reads
        => /\ wire'.got.err = ""
           /\ wire'.got.msg = Head(wire.sent)
           /\ Len(wire.stream) - Len(wire'.stream) = 8 + Len(Head(wire.sent).Payload)
           /\ wire'.stream = wire'.got.rest]_vars

\* C13 witness: two frames were written back to back, the first with a
\* payload and a type that fills four bytes; the first has been read and the
\* second is still on the stream
C13_Witness ==
  /\ wire.got.err = "" /\ wire.got.msg = Message(16909060, <<255, 10>>)
  /\ Len(wire.sent) = 1 /\ wire.stream = EncodeMessage(wire.sent[1])
  /\ call.op = "DecodeMessage" /\ call.ret.msg = Message(3, <<>>)

(***************************************************************************)
(* Roles and rules: claim C15 under SpecRbac, claim C16 under SpecMatch    *)
(***************************************************************************)
AssignStep == call' # call /\ call'.op = "AssignRole"

\* the role list of the user of the call, before it
Held == RolesOf(userRoles, call'.args[1])

\* C15: RBAC monotonicity.  A request that CheckPermission allows before
\* AssignRole(u, r) is allowed after it; AssignRole of a role the user holds
\* succeeds and leaves the role list as it was; AssignRole of an unknown
\* role returns an error and changes nothing.
C15_AssignRoleMonotone ==
  [][AssignStep
     => /\ \A u \in RbacUsers, perm \in MatchPerms \cup {"CREATE_DATABASE"},
              type \in MatchTypes, name \in ResNames :
              PermissionManagerCheck(userPermissions, userRoles, u, perm,
                                     Resource(type, name))
                => PermissionManagerCheck(userPermissions', userRoles', u, perm,
                                          Resource(type, name))
        /\ (\E i \in DOMAIN Held : Held[i] = call'.args[2])
             => call'.ret = "" /\ userRoles' = userRoles
        /\ call'.args[2] \notin {"admin", "readonly", "developer"}
             => /\ call'.ret # ""
                /\ userRoles' = userRoles /\ userPermissions' = userPermissions]_vars

\* C15 witness: bob, who holds admin and a granted rule, was assigned
\* readonly as a second role, after an unknown role was refused to eve
C15_Witness ==
  /\ call.op = "AssignRole" /\ call.args = <<"bob", "readonly">> /\ call.ret = ""
  /\ "bob" \in DOMAIN userRoles /\ userRoles["bob"] = <<"admin", "readonly">>
  /\ "bob" \in DOMAIN userPermissions /\ "eve" \notin DOMAIN userRoles

\* The match of a whole name against a glob: "*" is any sequence of
\* characters, every other character is itself
RECURSIVE GlobMatch(_, _)
GlobMatch(glob, name) ==
  IF glob = <<>> THEN name = <<>>
  ELSE IF Head(glob) = "*"
  THEN GlobMatch(Tail(glob), name) \/ (name # <<>> /\ GlobMatch(glob, Tail(name)))
  ELSE name # <<>> /\ Head(glob) = Head(name) /\ GlobMatch(Tail(glob), Tail(name))

\* C16: permission matching.  A rule matches a request iff permission and
\* resource type are equal and the rule's name is empty, or has no "*" and
\* equals the resource's name, or has a "*" and the whole of the resource's
\* name matches it as a glob.
C16_MatchIsGlob ==
  [][call'.op = "matchPermissionRule"
     => LET rule == call'.args[1]
            res == call'.args[3]
        IN  call'.ret <=> /\ rule.Permission = call'.args[2]
                          /\ rule.Type = res.Type
                          /\ \/ rule.Name = <<>>
                             \/ GlobMatch(rule.Name, res.Name)]_vars

(***************************************************************************)
(* Connections: claim C20, checked under SpecConn                          *)
(***************************************************************************)
\* C20: within one connection the server writes exactly one response frame
\* for each request frame it read, the response to a request before the
\* next request is read, under every interleaving with other connections:
\* a connection waiting to read has answered every request, a connection
\* between read and write owes exactly one response, and no connection is
\* left owing a response when the server has stopped serving it.
C20_OneResponsePerRequest ==
  \A c \in ConnIds :
    /\ conns[c].pc \in {"new", "read", "closed"} => conns[c].writes = conns[c].reads
    /\ conns[c].pc \in {"handle", "write"} => conns[c].writes + 1 = conns[c].reads
    /\ ~running => conns[c].writes = conns[c].reads

\* C21: read timeout.  When the read deadline of a connection passes with
\* no complete frame, the session is not closed: the worker is back in its
\* read loop, the connection is still registered and its authentication
\* state is what it was.
C21_TimeoutKeepsSession ==
  [][\A c \in ConnIds :
       conns'[c].err = "timeout" /\ conns[c].err # "timeout"
       => conns'[c].pc = "read" /\ conns'[c].client = conns[c].client]_vars

\* C22: a frame whose type is none of Auth, Query, Result, Error is a
\* protocol error that closes the connection on which it was received.
C22_UnknownTypeCloses ==
  [][\A c \in ConnIds :
       /\ conns[c].pc = "handle" /\ conns'[c] # conns[c]
       /\ conns[c].req[1] \notin {"Auth", "Query", "Result", "Error"}
       => conns'[c].pc = "closed"]_vars

(***************************************************************************)
(* Collections: claim C19, checked under SpecColl                          *)
(***************************************************************************)
\* the number of databases of a collection
Held19(cols, c) == IF c \in DOMAIN cols THEN Cardinality(DOMAIN cols[c].Databases) ELSE 0

\* C19: database quota.  Every collection holds at most 8 databases in
\* every reachable state; CreateDatabase on a collection that holds 8 fails
\* and changes neither the collection's Databases map nor the disk.
C19_DatabaseQuota ==
  [][/\ \A c \in QuotaColls : Held19(collections', c) <= MaxDatabases
     /\ \A c \in QuotaColls :
          call' # call /\ call'.op = "CreateDatabase" /\ call'.args[1] = c
            /\ Held19(collections, c) = MaxDatabases
          => call'.ret # "" /\ collections' = collections /\ disk' = disk]_vars

(***************************************************************************)
(* CreateUser rejected: claim C37, checked under SpecNewUser               *)
(***************************************************************************)
\* C37: CreateUser is all-or-nothing.  When it returns an error (the user
\* exists, a role does not exist, the save fails) the user map and the role
\* assignments are what they were before the call; after a CreateUser
\* rejected for an unknown role ValidateUser(username, password) is false.
C37_CreateUserAllOrNothing ==
  [][(call' # call /\ call'.op = "CreateUser" /\ call'.ret # "")
     => /\ users' = users
        /\ userRoles' = userRoles
        /\ call'.ret = "no such role"
           => ~ValidateUser(users', call'.args[1], call'.args[2])]_vars

(***************************************************************************)
(* Roles after a restart: claim C38, checked under SpecRestart             *)
(***************************************************************************)
\* The requests asked of CheckPermission
RestartRequests ==
  {<<perm, Resource(type, <<"t">>)>> :
     perm \in {"SELECT", "INSERT", "CREATE_TABLE"}, type \in {"TABLE", "DATABASE"}}

\* the answers of CheckPermission for the created users
Answers(us, uperms, uroles) ==
  [u \in RestartNames |->
     {q \in RestartRequests : CheckPermission(us, uperms, uroles, u, q[1], q[2])}]

\* C38: role assignments survive a restart.  For every user created with
\* roles and every request (perm, resource), CheckPermission gives the same
\* answer on the manager NewUserManager rebuilds from the saved user file as
\* on the manager that created the user.
C38_RolesSurviveRestart ==
  [][(call'.op = "NewUserManager" /\ call'.args = <<users, userRoles>>)
     => Answers(users', userPermissions', userRoles')
        = Answers(users, userPermissions, userRoles)]_vars

(***************************************************************************)
(* CreateDatabase failed: claim C39, checked under SpecRecreate            *)
(***************************************************************************)
\* C39: a failed CreateDatabase destroys no data.  When CreateDatabase
\* returns an error for a name whose directory holds a data.sudb written by
\* an earlier SaveToDisk, that data.sudb and its .bak are on disk after the
\* call as they were before.
C39_FailedCreateKeepsData ==
  [][(call' # call /\ call'.op = "CreateDatabase" /\ call'.ret # "")
     => \A k \in DOMAIN disk :
          (k = <<call'.args[1], call'.args[2]>> /\ disk[k].live.exists)
          => /\ k \in DOMAIN disk'
             /\ disk'[k].live = disk[k].live
             /\ disk'[k].bak = disk[k].bak]_vars

(***************************************************************************)
(* Collections read from disk: claim C40, checked under SpecManager        *)
(***************************************************************************)
\* C40: every collection held by the collection manager is fully usable,
\* whether CreateCollection made it or loadCollections read it from disk (at
\* boot or after RestoreCollection): it carries its crypto manager, and
\* CreateDatabase on it returns success or an error and never panics.
C40_LoadedCollectionsUsable ==
  /\ \A c \in DOMAIN collections : c \notin DOMAIN cmgr.loaded
  /\ call.op = "CreateDatabase" => call.ret # "panic"

(***************************************************************************)
(* Users: claim C17, checked under SpecUsers                               *)
(***************************************************************************)
\* the passwords ValidateUser accepts for u in a user map
Accepted(us, u) == {q \in UmPasswords : ValidateUser(us, u, q)}

\* C17: ValidateUser(u, p) is true iff u exists, is active (its last status
\* operation was not LockUser) and p is the password given at creation.
\* Step by step: CreateUser(u, p, _) makes p the one password accepted for u;
\* LockUser(u) leaves none accepted; UnlockUser(u) makes the stored password
\* the one accepted; no step changes a stored password or what is accepted
\* for another user, and nothing is accepted for a user never created; an
\* Auth frame is answered with a Result iff ValidateUser accepts it.
C17_ValidateUser ==
  [][/\ \A u \in UmUsers, p \in UmPasswords, roles \in UmRoles :
          CreateUser(u, p, roles) => Accepted(users', u) = {p}
     /\ \A u \in UmUsers : LockUser(u) => Accepted(users', u) = {}
     /\ \A u \in UmUsers : UnlockUser(u) => Accepted(users', u) = {users[u].Password}
     /\ \A u \in UmUsers :
          \/ LockUser(u) \/ UnlockUser(u)
          \/ \E p \in UmPasswords, roles \in UmRoles : CreateUser(u, p, roles)
          \/ Accepted(users', u) = Accepted(users, u)
     /\ \A u \in UmUsers :
          IF u \in DOMAIN users
          THEN u \in DOMAIN users' /\ users'[u].Password = users[u].Password
          ELSE Accepted(users, u) = {}
     /\ \A u \in UmUsers, p \in UmPasswords :
          /\ call' # call /\ call'.args = <<u, p>> => (call'.ret <=> p \in Accepted(users, u))
          /\ FrameStep /\ last'.payload = AuthText(u, p)
               => (last'.resp.type = "Result" <=> p \in Accepted(users, u))]_vars

\* C17 witness: bob, created with password pw and then locked, was refused
\* by ValidateUser and by the server, on a session that stays unauthenticated
C17_Witness ==
  /\ "bob" \in DOMAIN users /\ users["bob"].Status = "locked"
  /\ call.op = "ValidateUser" /\ call.args = <<"bob", "pw">> /\ ~call.ret
  /\ last.type = "Auth" /\ last.payload = AuthText("bob", "pw") /\ last.resp.type = "Error"
  /\ \E c \in Conns : clients[c].open /\ ~clients[c].auth

(***************************************************************************)
(* SM4 and the user store: claims C14 and C18, checked under SpecCrypto    *)
(***************************************************************************)
\* C14: padding round trip.  DecryptSM4(EncryptSM4(data)) returns data for
\* every byte string: empty, shorter than a block, block-aligned, longer
\* than a block.
C14_PaddingRoundTrip ==
  [][call'.op = "DecryptSM4" /\ call.op = "EncryptSM4"
     => ~call'.ret.panic /\ call'.ret.plain = call'.args[1]]_vars

\* C18: bootstrap of the user store is never fatal.  Whenever the user file
\* is absent, empty, or holds any bytes that do not decrypt to a JSON user
\* map, NewUserManager returns without crash or error a manager in which
\* ValidateUser("root", "123456") is true and root has role admin.
C18_BootstrapNeverFatal ==
  [][call'.op = "NewUserManager"
     => LET file == call'.args[1]
            um == call'.ret
        IN  \/ /\ file.exists /\ Len(file.bytes) >= BlockSize
               /\ ~DecryptSM4(file.bytes).panic
               /\ DecryptSM4(file.bytes).plain = <<123, 125>>
            \/ /\ ~um.panic /\ um.err = ""
               /\ ValidateUser(um.users, "root", "123456")
               /\ RolesOf(um.userRoles, "root") = <<"admin">>]_vars

(***************************************************************************)
(* The lock of the memory store: claims C23, C26, C27, C28 under SpecLock  *)
(***************************************************************************)
\* C23: Stop called while dirty is true performs one final SaveToDisk and
\* returns.  Stop is never inside that SaveToDisk waiting for a read lock
\* that the write lock Stop itself holds keeps from being granted.
C23_StopReturns ==
  ~(gor["stop"].pc = "save.rlock" /\ gor["stop"].ret = "stop.unlock" /\ ms.w = "stop")

\* C26: every assignment to dirty (InsertRecord sets it, SaveToDisk and
\* autoSave clear it) is made by a goroutine that holds mu exclusively.
C26_DirtyUnderLock ==
  [][\A g \in Goroutines :
       \/ g \in Inserters /\ InsStore(g)
       \/ g \in Savers /\ SaveClear(g)
       \/ g = "auto" /\ TickClear
       => HoldsLock(g)]_vars

\* C27: deadlock freedom of autosave.  No state is reachable in which the
\* autosave task, holding its read lock, waits in SaveToDisk for the second
\* read lock behind an InsertRecord that waits in Lock for the readers to
\* leave.
C27_AutosaveNoDeadlock ==
  ~(/\ gor["auto"].pc = "save.rlock" /\ ms.readers["auto"] > 0
    /\ ms.w \in Inserters /\ gor[ms.w].pc = "ins.wait")

\* the records of goroutine g among rows, in their order
RowsBy(rows, g) == SelectSeq(rows, LAMBDA r : r["by"].v = g)

\* the calls of g that went to database k, and the records they inserted
CallsTo(g, k) == {i \in DOMAIN gor[g].sent : gor[g].sent[i] = k}
SentTo(g, k) ==
  [j \in 1..Cardinality(CallsTo(g, k)) |->
     LockRow(g, CHOOSE i \in CallsTo(g, k) :
                  Cardinality({x \in CallsTo(g, k) : x <= i}) = j)]

\* C28: no lost insert.  Once all InsertRecord calls have returned, each
\* database holds exactly the records inserted into it, those of one
\* connection in the order it inserted them, and dirty is true unless a
\* SaveToDisk started after the last insert.
C28_NoLostInsert ==
  (\A g \in Inserters : gor[g].pc = "idle")
  => /\ DbKeys(data) \subseteq LockDbs
     /\ \A k \in LockDbs :
          /\ \A g \in Inserters : RowsBy(Records(data, k[1], k[2]), g) = SentTo(g, k)
          /\ \A i \in DOMAIN Records(data, k[1], k[2]) :
               Records(data, k[1], k[2])[i]["by"].v \in Inserters
     /\ TotalRecords(data) > 0
          => dirty \/ \E g \in Savers : gor[g].seen = TotalRecords(data)

\* C28 witness: both connections have inserted twice, three of the records
\* into app.users with those of ins2 around one of ins1, and a save that
\* started after the last insert has cleared dirty
C28_Witness ==
  /\ \A g \in Inserters : gor[g].pc = "idle" /\ Len(gor[g].sent) = 2
  /\ Records(data, "app", "users") = <<LockRow("ins2", 1), LockRow("ins1", 1), LockRow("ins2", 2)>>
  /\ Records(data, "app", "logs") = <<LockRow("ins1", 2)>>
  /\ ~dirty /\ gor["auto"].seen = 4

(***************************************************************************)
(* Shutdown: claims C35 and C36, checked under SpecShutdown                *)
(***************************************************************************)
\* C35: after the serve context is cancelled Serve stops accepting and
\* returns in the end, also when no further client connects, and every
\* connection worker returns in the end, so that the wait group of main
\* completes.
C35_ShutdownLiveness ==
  (sd.ctx = "cancelled")
  ~> (sd.serve = "returned" /\ \A w \in Workers : sd.workers[w] \in {"none", "returned"})

\* the records in the data.sudb of app.users
OnDisk == IF <<"app", "users">> \in DOMAIN disk
          THEN Len(UnmarshalRows(disk[<<"app", "users">>].live.text).rows) ELSE 0

\* C36: once Server.Shutdown has returned every INSERT that was answered
\* with a Result frame is in the data.sudb of its database, and no worker
\* executes a statement against the memory store after the final SaveToDisk
\* of Shutdown has started.
C36_DurableAtShutdown ==
  [][/\ sd'.main \in {"returned", "exited"} => sd'.answered <= OnDisk'
     /\ data' # data => sd.main \notin {"saved", "returned"}]_vars

(***************************************************************************)
(* Memory after a restore: claim C34, checked under SpecRestore            *)
(***************************************************************************)
\* the records in a data.sudb
RowsIn(file) == UnmarshalRows(file.text).rows

IsPrefix(rows1, rows2) ==
  Len(rows1) <= Len(rows2) /\ SubSeq(rows2, 1, Len(rows1)) = rows1

\* C34: after RestoreCollection returned success the memory store agrees
\* with the restored files.  QueryRecords on each database of the restored
\* collection returns the records of the restored data.sudb, and a later
\* SaveToDisk does not replace a restored data.sudb with records that were
\* in memory before the restore: what it writes begins with the restored
\* records.
C34_MemoryFollowsRestore ==
  [][(call'.op = "RestoreCollection" /\ call'.ret = "")
     => \A k \in DOMAIN call'.args[1].tree :
          LET restored == RowsIn(call'.args[1].tree[k].live)
          IN  /\ call' # call => QueryRecords(data', k[1], k[2], NoFilter) = restored
              /\ (call' = call /\ k \in DOMAIN disk /\ k \in DOMAIN disk'
                  /\ disk'[k].live.exists /\ disk'[k].live # disk[k].live)
                 => IsPrefix(restored, RowsIn(disk'[k].live))]_vars

(***************************************************************************)
(* Backup: claim C33, checked under SpecBackup                             *)
(***************************************************************************)
\* C33: BackupCollection on a collection that the manager holds, whose
\* directory holds its meta.sudb and the directories of its databases,
\* returns success, leaves <id>.tar.gz with one entry for every directory and
\* file of the tree and <id>.json with status completed; when it returns an
\* error it leaves no archive without a manifest.
C33_BackupComplete ==
  [][(call'.op = "BackupCollection" /\ (call' # call \/ backups' # backups))
     => LET name == call'.args[1]
            id == call'.args[3]
        IN  /\ name \in DOMAIN collections
               => /\ call'.ret = ""
                  /\ id \in DOMAIN backups'
                  /\ backups'[id].manifest = "completed"
                  /\ backups'[id].archive =
                       [p \in Tree(collections, disk, name, call'.args[2]) |-> 1]
            /\ call'.ret # ""
               => \A b \in DOMAIN backups' : backups'[b].manifest = "none" => b \in DOMAIN backups]_vars

(***************************************************************************)
(* Audit rotation: claim C32, checked under SpecAudit                      *)
(***************************************************************************)
\* C32: in every state of the logger curSize is the size of the open audit
\* file, and no record is appended to a file whose size is already >= the
\* maximum; also when two rotations, or a restart and a rotation, fall in the
\* same second.
C32_RotationInvariant ==
  [][/\ audit'.curSize = audit'.files[audit'.file]
     /\ \A f \in DOMAIN audit.files : audit'.files[f] > audit.files[f]
                                        => audit.files[f] < MaxSize]_vars

(***************************************************************************)
(* Concurrent CREATE DATABASE: claim C31, checked under SpecCreate         *)
(***************************************************************************)
\* C31: database names are unique under concurrency.  The map of databases
\* is never written by two goroutines at once, and two CREATE DATABASE for
\* the same <coll>.<db> never both return success: the one that comes second
\* fails with the duplicate-name error.
C31_UniqueNames ==
  /\ ~(cdb["cd1"].pc = "writing" /\ cdb["cd2"].pc = "writing")
  /\ ~(/\ cdb["cd1"].pc = "done" /\ cdb["cd2"].pc = "done"
       /\ cdb["cd1"].at = cdb["cd2"].at
       /\ cdb["cd1"].ret = "" /\ cdb["cd2"].ret = "")

(***************************************************************************)
(* Filters: claims C29 and C30, checked under SpecQuery                    *)
(***************************************************************************)
\* values are ordered number against number and string against string
Ordered(a, b) == a.k = b.k /\ a.k \in {"float64", "string"}
Above(a, b) ==
  /\ Ordered(a, b)
  /\ IF a.k = "float64" THEN Float64[a.v] > Float64[b.v]
     ELSE StringRank(a.v) > StringRank(b.v)

\* what a comparison means
Holds(operator, a, b) ==
  CASE operator = "=" -> a = b
    [] operator = "!=" -> a # b
    [] operator = ">" -> Above(a, b)
    [] operator = "<" -> Above(b, a)
    [] operator = ">=" -> Above(a, b) \/ a = b
    [] operator = "<=" -> Above(b, a) \/ a = b

\* the record satisfies the condition of the filter on field f
Satisfies(rec, f, cond) ==
  /\ f \in DOMAIN rec
  /\ IF cond.k = "map" THEN Holds(cond.operator, rec[f], cond.value)
     ELSE Holds("=", rec[f], cond)

Wanted(rows, filter) ==
  IF filter.nil THEN rows
  ELSE SelectSeq(rows, LAMBDA rec : \A f \in DOMAIN filter.row : Satisfies(rec, f, filter.row[f]))

\* C29: QueryRecords(coll, db, filter) returns, in insertion order, all
\* records when the filter is nil and otherwise exactly the records that
\* satisfy every field condition of the filter (a scalar is equality, an
\* object the comparison of its operator); a record without a filtered field
\* never matches; a missing collection or database gives an empty result and
\* no error; the store is not modified.
C29_QueryRecords ==
  [][(call' # call /\ call'.op = "QueryRecords")
     => LET c == call'.args[1]
            d == call'.args[2]
        IN  /\ call'.ret = (IF HasDb(data, c, d)
                            THEN Wanted(data[c][d], call'.args[3]) ELSE <<>>)
            /\ data' = data /\ dirty' = dirty]_vars

\* C30: a record whose field is of another type than the filter's value
\* matches none of >, <, >=, <= and does not match =: every record returned
\* has, in each field filtered with one of these, a value of the type of the
\* filter's value.
C30_CrossType ==
  [][(call' # call /\ call'.op = "QueryRecords" /\ ~call'.args[3].nil)
     => \A i \in DOMAIN call'.ret : \A f \in DOMAIN call'.args[3].row :
          LET cond == call'.args[3].row[f]
          IN  IF cond.k = "map"
              THEN cond.operator \in {"=", ">", "<", ">=", "<="}
                   => call'.ret[i][f].k = cond.value.k
              ELSE call'.ret[i][f].k = cond.k]_vars

(***************************************************************************)
(* Restore: claim C25, checked under SpecRestore                           *)
(***************************************************************************)
\* the directory tree of a collection
TreeOf(dk, name) == [k \in {x \in DOMAIN dk : x[1] = name} |-> dk[k]]

\* C25: restore swaps the collection in atomically.  When RestoreCollection
\* returns an error, at whatever step, the live collection's directory tree
\* and its entry in the collection manager are what they were before the
\* call.
C25_RestoreAtomic ==
  [][(call' # call /\ call'.op = "RestoreCollection" /\ call'.ret # "")
     => LET name == call'.args[1].name
        IN  /\ TreeOf(disk', name) = TreeOf(disk, name)
            /\ (name \in DOMAIN collections') = (name \in DOMAIN collections)
            /\ name \in DOMAIN collections => collections'[name] = collections[name]]_vars

(***************************************************************************)
(* Autosave: claim C24, checked under SpecStore                            *)
(***************************************************************************)
\* C24: autosave retry.  When the save of a tick (a SaveToDisk started with
\* dirty true) ends after the write of data.sudb.tmp or its rename failed
\* for some database, dirty is still true, so that the next tick saves again.
C24_AutosaveRetry ==
  [][(saving.active /\ ~saving'.active /\ running' /\ dirty /\ saveErr) => dirty']_vars

(***************************************************************************)
(* The index: claim C8, checked under SpecIndex                            *)
(***************************************************************************)
\* C8: after any sequence of Add and Remove calls, Find(k) holds for every
\* key k exactly the row ids added under k and not removed, each as many
\* times.
C8_FindIsAddedMinusRemoved ==
  \A key \in IndexKeys : \A r \in RowIds :
    Cardinality({i \in DOMAIN Find(root, nodes, key) : Find(root, nodes, key)[i] = r})
      = postings[key][r]

====
